---- MODULE Spec2Model ----
(***************************************************************************)
(* The ledger ("Bank") of homeworks/hw12/src/bank.rs and the TCP server of *)
(* homeworks/hw1[345]/server/src/main.rs that serialises every client      *)
(* request onto one processing thread owning the Bank.                     *)
(***************************************************************************)
EXTENDS Integers, Sequences, FiniteSets, TLC

(***************************************************************************)
(* Bounds of the model.                                                    *)
(***************************************************************************)
\* Money is f64 (53 significant bits).  The model keeps the shape of a binary
\* floating-point format and scales it down: MantissaBits significant bits,
\* exponents 0..MaxExp, round-to-nearest-even, overflow to infinity, NaN.
MantissaBits == 2
MaxExp == 1
\* The ulid generator is stopped after MaxId identifiers.
MaxId == 4

\* Account codes the callers use.
Codes == {"A", "B"}

(***************************************************************************)
(* Money = f64                                                             *)
(***************************************************************************)
RECURSIVE Pow2(_)
Pow2(e) == IF e = 0 THEN 1 ELSE 2 * Pow2(e - 1)

Fin(v) == [cls |-> "fin", v |-> v]
PosInf == [cls |-> "inf", v |-> 1]
NegInf == [cls |-> "inf", v |-> -1]
NaN == [cls |-> "nan", v |-> 0]
MONEY_ZERO == Fin(0)

MaxFinite == (Pow2(MantissaBits) - 1) * Pow2(MaxExp)

\* The finite values of the format: m * 2^e.
FiniteValues ==
    { s * m * Pow2(e) : s \in {-1, 1}, m \in 0..(Pow2(MantissaBits) - 1), e \in 0..MaxExp }

Money == { Fin(v) : v \in FiniteValues } \cup {PosInf, NegInf, NaN}

\* The spacing of the format around the magnitude x: the least power of two q
\* with x < 2^MantissaBits * q.
RECURSIVE Quantum(_, _)
Quantum(x, q) == IF x < Pow2(MantissaBits) * q THEN q ELSE Quantum(x, 2 * q)

\* Round-to-nearest, ties to the even mantissa; past MaxFinite the result is
\* infinite.
RoundMagnitude(x) ==
    LET q == Quantum(x, 1)
        lo == (x \div q) * q
        up == lo + q
        r == x - lo
        y == IF 2 * r < q THEN lo
             ELSE IF 2 * r > q THEN up
             ELSE IF (lo \div q) % 2 = 0 THEN lo ELSE up
    IN IF y > MaxFinite THEN [cls |-> "inf", v |-> 1] ELSE [cls |-> "fin", v |-> y]

MoneyRound(x) ==
    IF x >= 0 THEN RoundMagnitude(x)
    ELSE LET m == RoundMagnitude(-x) IN [cls |-> m.cls, v |-> -m.v]

FNeg(a) == IF a.cls = "nan" THEN a ELSE [cls |-> a.cls, v |-> -a.v]

\* a + b of f64.
FAdd(a, b) ==
    IF a.cls = "nan" \/ b.cls = "nan" THEN NaN
    ELSE IF a.cls = "inf" /\ b.cls = "inf" THEN (IF a.v = b.v THEN a ELSE NaN)
    ELSE IF a.cls = "inf" THEN a
    ELSE IF b.cls = "inf" THEN b
    ELSE MoneyRound(a.v + b.v)

\* a - b of f64.
FSub(a, b) == FAdd(a, FNeg(b))

\* The position of a non-NaN value on the extended real line, scaled so that
\* the infinities lie beyond every finite value.
Rank(a) == IF a.cls = "inf" THEN a.v * (MaxFinite + 1) ELSE a.v

\* a < b and a <= b of f64 (PartialOrd: false when either side is NaN).
FLt(a, b) == a.cls # "nan" /\ b.cls # "nan" /\ Rank(a) < Rank(b)
FLe(a, b) == a.cls # "nan" /\ b.cls # "nan" /\ Rank(a) <= Rank(b)

\* f64::is_finite
IsFinite(m) == m.cls = "fin"

\* Amounts the callers pass: negative, zero, the smallest and the largest
\* positive number of the format, and not-a-number.
Amounts == {Fin(-1), Fin(0), Fin(1), Fin(MaxFinite), NaN}

(***************************************************************************)
(* Bank (bank.rs)                                                          *)
(***************************************************************************)
\* Operation { id, source_account, amount, operation_type }; the target
\* account is carried by the Transfer variant of OperationType.
CreateAccountType == [tag |-> "CreateAccount"]
DepositType == [tag |-> "Deposit"]
WithdrawType == [tag |-> "Withdraw"]
TransferType(target_account) == [tag |-> "Transfer", target_account |-> target_account]

Operation(id, source_account, amount, operation_type) ==
    [id |-> id, source_account |-> source_account, amount |-> amount,
     operation_type |-> operation_type]

\* BankError and its variants.
AccountDuplicationError(account) == [kind |-> "AccountDuplication", account |-> account]
AccountNotFoundError(account) == [kind |-> "AccountNotFound", account |-> account]
SomeAccountTransferError(account) == [kind |-> "SomeAccountTransfer", account |-> account]
AmountNegativeError(account, amount) ==
    [kind |-> "AmountNegative", account |-> account, amount |-> amount]
\* Mutant of InsufficientFundsError: amount and balance change places.
InsufficientFundsError_swapped(account, amount, balance) ==
    [kind |-> "InsufficientFunds", account |-> account, amount |-> balance,
     balance |-> amount]

InsufficientFundsError(account, amount, balance) ==
    [kind |-> "InsufficientFunds", account |-> account, amount |-> amount,
     balance |-> balance]

Ok(value) == [ok |-> TRUE, value |-> value]
Err(error) == [ok |-> FALSE, error |-> error]
\* A call that ends in a panic (an unwrap of None or of an Err).
Panic == [ok |-> FALSE, error |-> [kind |-> "panic"]]

\* The outcome of a &mut self call: the Bank after it and what it returned.
Outcome(bank, res) == [bank |-> bank, res |-> res]

\* Mutant of Insert: the map is replaced by the single new entry.
Insert_alone(map, k, v) == [x \in {k} |-> v]

\* A map with key k set to v (HashMap::insert, BTreeMap::insert).
Insert(map, k, v) == [x \in DOMAIN map \cup {k} |-> IF x = k THEN v ELSE map[x]]

EmptyMap == [x \in {} |-> 0]

RECURSIVE SumOver(_, _)
\* The sum of f[x] over the x in S, for integers f[x].
SumOver(f, S) ==
    IF S = {} THEN 0
    ELSE LET x == CHOOSE y \in S : TRUE IN f[x] + SumOver(f, S \ {x})

\* TransactionId is the string of a ULID.  The Bank only compares identifiers
\* (equality, and the key order of the BTreeMap), so an identifier is modelled
\* by its rank: ulid_generator is the rank of the identifier generated last.
\* Bank::default() at the time `clock`: no account, no history, and a generator
\* whose identifiers all come after those generated before `clock`.
BankDefault(clock) ==
    [accounts |-> EmptyMap,
     accounts_history |-> EmptyMap,
     history |-> EmptyMap,
     ulid_generator |-> clock]

\* Bank::new()
NewBank == BankDefault(0)

\* self.accounts.contains_key(account)
check_account_exists(self, account) == account \in DOMAIN self.accounts

\* ulid::Generator is monotonic: the identifier it returns is greater than
\* every one it returned before (the previous one incremented within a
\* millisecond, a later timestamp otherwise).
get_next_id(self) == self.ulid_generator + 1

\* Mutant of history_push: the id is stored only when the account has no
\* history yet (`or_insert(vec![id])` in place of `or_default().push(id)`).
history_push_first_only(accounts_history, account, id) ==
    IF account \in DOMAIN accounts_history THEN accounts_history
    ELSE Insert(accounts_history, account, << id >>)

\* self.accounts_history.entry(account).or_default().push(id)
history_push(accounts_history, account, id) ==
    Insert(accounts_history, account,
           Append(IF account \in DOMAIN accounts_history
                  THEN accounts_history[account] ELSE << >>, id))

\* Mutant of push_transaction: the id of a transfer is stored in the history
\* of the source account only.
push_transaction_source_only(self, operation) ==
    IF ~check_account_exists(self, operation.source_account)
    THEN Outcome(self, Err(AccountNotFoundError(operation.source_account)))
    ELSE Outcome([self EXCEPT
                    !.accounts_history =
                        history_push(@, operation.source_account, operation.id),
                    !.history = Insert(@, operation.id, operation)],
                 Ok(operation.id))

push_transaction(self, operation) ==
    LET ty == operation.operation_type
        src == operation.source_account
        isTransfer == ty.tag = "Transfer"
    IN
    IF ~check_account_exists(self, src)
    THEN Outcome(self, Err(AccountNotFoundError(src)))
    ELSE IF isTransfer /\ ~check_account_exists(self, ty.target_account)
    THEN Outcome(self, Err(AccountNotFoundError(ty.target_account)))
    ELSE
      LET h1 == history_push(self.accounts_history, src, operation.id) IN
      IF isTransfer /\ ty.target_account \notin DOMAIN h1
      THEN Outcome([self EXCEPT !.accounts_history = h1], Panic)
      ELSE
        LET h2 == IF isTransfer
                  THEN history_push(h1, ty.target_account, operation.id)
                  ELSE h1
        IN Outcome([self EXCEPT !.accounts_history = h2,
                                !.history = Insert(self.history, operation.id, operation)],
                   Ok(operation.id))

\* `self.push_transaction(operation)?; Ok(id)`
Pushed(p, id) == IF p.res.ok THEN Outcome(p.bank, Ok(id)) ELSE p

\* Mutant of amount_not_positive: `amount < 0`, zero passes.
amount_negative_only(amount) == FLt(amount, MONEY_ZERO)

\* `amount <= Money::default()`, `amount <= MONEY_ZERO`
amount_not_positive(amount) == FLe(amount, MONEY_ZERO)

\* Mutant of insufficient_funds: a balance equal to the amount is refused.
insufficient_funds_or_equal(balance, amount) == FLe(balance, amount)

\* `*balance < RefCell::from(amount)`: RefCell compares the values it holds.
insufficient_funds(balance, amount) == FLt(balance, amount)

\* Mutant of same_account: the check is missing.
same_account_unchecked(sender_account, receiver_account) == FALSE

\* `sender_account == receiver_account`
same_account(sender_account, receiver_account) == sender_account = receiver_account

\* Mutant of account_duplicated: the check is missing.
account_duplicated_unchecked(self, account) == FALSE

\* `self.accounts.contains_key(account)` of create_account
account_duplicated(self, account) == account \in DOMAIN self.accounts

\* Mutant of create_account: the account is inserted but its CreateAccount
\* operation is not pushed.
create_account_unlogged(self, account) ==
    IF account_duplicated(self, account)
    THEN Outcome(self, Err(AccountDuplicationError(account)))
    ELSE
      LET next_id == get_next_id(self)
      IN Outcome([self EXCEPT !.ulid_generator = next_id,
                              !.accounts = Insert(self.accounts, account, MONEY_ZERO)],
                 Ok(next_id))

create_account(self, account) ==
    IF account_duplicated(self, account)
    THEN Outcome(self, Err(AccountDuplicationError(account)))
    ELSE
      LET next_id == get_next_id(self)
          b1 == [self EXCEPT !.ulid_generator = next_id,
                             !.accounts = Insert(self.accounts, account, MONEY_ZERO)]
          operation == Operation(next_id, account, MONEY_ZERO, CreateAccountType)
      IN Pushed(push_transaction(b1, operation), next_id)

deposit(self, account, amount) ==
    IF ~check_account_exists(self, account)
    THEN Outcome(self, Err(AccountNotFoundError(account)))
    ELSE IF amount_not_positive(amount)
    THEN Outcome(self, Err(AmountNegativeError(account, amount)))
    ELSE
      LET transaction_id == get_next_id(self)
          b1 == [self EXCEPT !.accounts[account] = FAdd(@, amount),
                             !.ulid_generator = transaction_id]
          operation == Operation(transaction_id, account, amount, DepositType)
      IN Pushed(push_transaction(b1, operation), transaction_id)

\* withdraw takes its identifier before it checks anything but the account.
withdraw(self, account, amount) ==
    IF ~check_account_exists(self, account)
    THEN Outcome(self, Err(AccountNotFoundError(account)))
    ELSE
      LET transaction_id == get_next_id(self)
          b1 == [self EXCEPT !.ulid_generator = transaction_id]
          operation == Operation(transaction_id, account, amount, WithdrawType)
          balance == self.accounts[account]
      IN
      IF amount_not_positive(amount)
      THEN Outcome(b1, Err(AmountNegativeError(account, amount)))
      ELSE IF insufficient_funds(balance, amount)
      THEN Outcome(b1, Err(InsufficientFundsError(account, amount, balance)))
      ELSE Pushed(push_transaction([b1 EXCEPT !.accounts[account] = FSub(@, amount)],
                                   operation),
                  transaction_id)

\* The three steps of a transfer that passed its checks (bank.rs 356-367).
transfer_debit(self, sender_account, amount) ==
    [self EXCEPT !.accounts[sender_account] = FSub(@, amount)]

transfer_credit(self, receiver_account, amount) ==
    [self EXCEPT !.accounts[receiver_account] = FAdd(@, amount)]

transfer_log(self, sender_account, receiver_account, amount) ==
    LET transaction_id == get_next_id(self)
        operation == Operation(transaction_id, sender_account, amount,
                               TransferType(receiver_account))
    IN Pushed(push_transaction([self EXCEPT !.ulid_generator = transaction_id], operation),
              transaction_id)

\* Mutant of transfer_check: the amount is checked before the accounts are
\* compared.
transfer_check_amount_first(self, sender_account, receiver_account, amount) ==
    IF ~check_account_exists(self, sender_account)
    THEN Err(AccountNotFoundError(sender_account))
    ELSE IF ~check_account_exists(self, receiver_account)
    THEN Err(AccountNotFoundError(receiver_account))
    ELSE IF amount_not_positive(amount)
    THEN Err(AmountNegativeError(sender_account, amount))
    ELSE IF same_account(sender_account, receiver_account)
    THEN Err(SomeAccountTransferError(sender_account))
    ELSE IF insufficient_funds(self.accounts[sender_account], amount)
    THEN Err(InsufficientFundsError(sender_account, amount, self.accounts[sender_account]))
    ELSE Ok(0)

\* The checks of a transfer, in the order of the code: Ok, or the first error.
transfer_check(self, sender_account, receiver_account, amount) ==
    IF ~check_account_exists(self, sender_account)
    THEN Err(AccountNotFoundError(sender_account))
    ELSE IF ~check_account_exists(self, receiver_account)
    THEN Err(AccountNotFoundError(receiver_account))
    ELSE IF same_account(sender_account, receiver_account)
    THEN Err(SomeAccountTransferError(sender_account))
    ELSE IF amount_not_positive(amount)
    THEN Err(AmountNegativeError(sender_account, amount))
    ELSE IF insufficient_funds(self.accounts[sender_account], amount)
    THEN Err(InsufficientFundsError(sender_account, amount, self.accounts[sender_account]))
    ELSE Ok(0)

\* Mutant of transfer: the sender is debited before the funds are checked, and
\* the debit stays when the check fails.
transfer_debit_first(self, sender_account, receiver_account, amount) ==
    LET c == transfer_check(self, sender_account, receiver_account, amount) IN
    IF ~c.ok
    THEN IF c.error.kind = "InsufficientFunds"
         THEN Outcome(transfer_debit(self, sender_account, amount), c)
         ELSE Outcome(self, c)
    ELSE transfer_log(transfer_credit(transfer_debit(self, sender_account, amount),
                                      receiver_account, amount),
                      sender_account, receiver_account, amount)

transfer(self, sender_account, receiver_account, amount) ==
    LET c == transfer_check(self, sender_account, receiver_account, amount) IN
    IF ~c.ok THEN Outcome(self, c)
    ELSE transfer_log(transfer_credit(transfer_debit(self, sender_account, amount),
                                      receiver_account, amount),
                      sender_account, receiver_account, amount)

\* Mutant of get_balance: a missing account has the default balance.
get_balance_or_default(self, account) ==
    IF ~check_account_exists(self, account) THEN Ok(MONEY_ZERO)
    ELSE Ok(self.accounts[account])

get_balance(self, account) ==
    IF ~check_account_exists(self, account)
    THEN Err(AccountNotFoundError(account))
    ELSE Ok(self.accounts[account])

\* Mutant of SortedKeys: the keys in descending order.
RECURSIVE SortedKeys_descending(_)
SortedKeys_descending(keys) ==
    IF keys = {} THEN << >>
    ELSE LET k == CHOOSE x \in keys : \A y \in keys : x >= y
         IN << k >> \o SortedKeys_descending(keys \ {k})

\* The keys of a BTreeMap in ascending order.
RECURSIVE SortedKeys(_)
SortedKeys(keys) ==
    IF keys = {} THEN << >>
    ELSE LET k == CHOOSE x \in keys : \A y \in keys : x <= y
         IN << k >> \o SortedKeys(keys \ {k})

\* Mutant of history_values: the operations in descending order of their
\* identifiers.
history_values_descending(self) ==
    LET ks == SortedKeys(DOMAIN self.history)
    IN [i \in 1..Len(ks) |-> self.history[ks[Len(ks) + 1 - i]]]

\* self.history.iter(): the operations in the order of their identifiers.
history_values(self) ==
    LET ks == SortedKeys(DOMAIN self.history)
    IN [i \in 1..Len(ks) |-> self.history[ks[i]]]

get_history(self) == Ok(history_values(self))

get_account_history(self, account) ==
    IF ~check_account_exists(self, account)
    THEN Err(AccountNotFoundError(account))
    ELSE IF account \notin DOMAIN self.accounts_history
    THEN Panic
    ELSE LET ids == self.accounts_history[account] IN
         IF \E i \in 1..Len(ids) : ids[i] \notin DOMAIN self.history
         THEN Panic
         ELSE Ok([i \in 1..Len(ids) |-> self.history[ids[i]]])

\* Mutant of get_operation_by_id: the first operation of the log is returned
\* for every id.
get_operation_by_id_first(self, id) ==
    IF DOMAIN self.history = {} THEN Err([kind |-> "None"])
    ELSE Ok(history_values(self)[1])

get_operation_by_id(self, id) ==
    IF id \in DOMAIN self.history THEN Ok(self.history[id]) ELSE Err([kind |-> "None"])

\* Mutant of replay_step: a transfer is re-dispatched with its source and its
\* target exchanged.
replay_step_transfer_reversed(target_bank, operation) ==
    LET ty == operation.operation_type IN
    IF ty.tag = "CreateAccount"
    THEN create_account(target_bank, operation.source_account)
    ELSE IF ty.tag = "Deposit"
    THEN deposit(target_bank, operation.source_account, operation.amount)
    ELSE IF ty.tag = "Withdraw"
    THEN withdraw(target_bank, operation.source_account, operation.amount)
    ELSE transfer(target_bank, ty.target_account, operation.source_account,
                  operation.amount)

\* One iteration of replay_history: the operation re-dispatched to the call of
\* its type on target_bank, and the result unwrapped.
replay_step(target_bank, operation) ==
    LET ty == operation.operation_type IN
    IF ty.tag = "CreateAccount"
    THEN create_account(target_bank, operation.source_account)
    ELSE IF ty.tag = "Deposit"
    THEN deposit(target_bank, operation.source_account, operation.amount)
    ELSE IF ty.tag = "Withdraw"
    THEN withdraw(target_bank, operation.source_account, operation.amount)
    ELSE transfer(target_bank, operation.source_account, ty.target_account,
                  operation.amount)

\* replay_history(operations_log): the Bank after the loop, or the panic of the
\* first unwrap that failed.
RECURSIVE replay_from(_, _)
replay_from(target_bank, operations_log) ==
    IF operations_log = << >> THEN Outcome(target_bank, Ok(0))
    ELSE LET o == replay_step(target_bank, Head(operations_log)) IN
         IF ~o.res.ok THEN Outcome(o.bank, Panic)
         ELSE replay_from(o.bank, Tail(operations_log))

replay_history(operations_log, clock) == replay_from(BankDefault(clock), operations_log)


(***************************************************************************)
(* The Bank driven through its public calls                                *)
(***************************************************************************)
VARIABLES
    bank,        \* the Bank: accounts, accounts_history, history, ulid_generator
    lastCall,    \* the call made last, with its arguments
    lastResult,  \* what that call returned
    handler,     \* per connection: where its handler thread is
    net_in,      \* per connection: frames written by the client, not yet read
    net_out,     \* per connection: frames written by the server
    queue,       \* the actor's input channel: (payload, reply sender)
    reply,       \* per connection: the reply channel of its pending request
    actor_pc,    \* where the Processing Actor is
    actor_cur,   \* the request the Processing Actor is inside
    sent,        \* frames sent by the clients so far
    client       \* per connection: where its BankClient is

bankVars == << bank, lastCall, lastResult >>
serverVars == << handler, net_in, net_out, queue, reply, actor_pc, actor_cur, sent >>
vars == << bank, lastCall, lastResult, handler, net_in, net_out, queue, reply,
           actor_pc, actor_cur, sent, client >>

NoCall == [op |-> "none"]

\* The Bank used as a library: no server runs.
NoServer ==
    /\ handler = EmptyMap
    /\ net_in = EmptyMap
    /\ net_out = EmptyMap
    /\ queue = << >>
    /\ reply = EmptyMap
    /\ actor_pc = "none"
    /\ actor_cur = NoCall
    /\ sent = 0
    /\ client = EmptyMap

Init ==
    /\ bank = NewBank
    /\ lastCall = NoCall
    /\ lastResult = Ok(0)
    /\ NoServer

\* A &mut self call: the Bank becomes the outcome's, the result is recorded.
Returns(call, outcome) ==
    /\ outcome.bank.ulid_generator <= MaxId
    /\ bank' = outcome.bank
    /\ lastCall' = call
    /\ lastResult' = outcome.res
    /\ UNCHANGED << serverVars, client >>

CreateAccount ==
    \E account \in Codes :
        Returns([op |-> "create_account", account |-> account],
                create_account(bank, account))

Deposit ==
    \E account \in Codes, amount \in Amounts :
        Returns([op |-> "deposit", account |-> account, amount |-> amount],
                deposit(bank, account, amount))

Withdraw ==
    \E account \in Codes, amount \in Amounts :
        Returns([op |-> "withdraw", account |-> account, amount |-> amount],
                withdraw(bank, account, amount))

Transfer ==
    \E sender_account \in Codes, receiver_account \in Codes, amount \in Amounts :
        Returns([op |-> "transfer", account |-> sender_account,
                 receiver_account |-> receiver_account, amount |-> amount],
                transfer(bank, sender_account, receiver_account, amount))

GetBalance ==
    \E account \in Codes :
        Returns([op |-> "get_balance", account |-> account],
                Outcome(bank, get_balance(bank, account)))

GetHistory ==
    Returns([op |-> "get_history"], Outcome(bank, get_history(bank)))

GetAccountHistory ==
    \E account \in Codes :
        Returns([op |-> "get_account_history", account |-> account],
                Outcome(bank, get_account_history(bank, account)))

GetOperationById ==
    \E id \in 1..MaxId :
        Returns([op |-> "get_operation_by_id", id |-> id],
                Outcome(bank, get_operation_by_id(bank, id)))

Next ==
    \/ CreateAccount
    \/ Deposit
    \/ Withdraw
    \/ Transfer
    \/ GetBalance
    \/ GetHistory
    \/ GetAccountHistory
    \/ GetOperationById

Spec == Init /\ [][Next]_vars

(***************************************************************************)
(* The TCP server: connection handlers and the Processing Actor            *)
(* (hw1[345]/server/src/main.rs, hw1[345]/shared/src/models.rs)            *)
(***************************************************************************)
Conns == {"c1", "c2"}

\* The number of frames the clients send in one run.
MaxFrames == 2

\* RequestPayload
PingRequest == [type |-> "Ping"]
CloseConnectionRequest == [type |-> "CloseConnection"]
OpenAccountRequest(account) == [type |-> "OpenAccount", account |-> account]
DepositRequest(account, amount) ==
    [type |-> "Deposit", account |-> account, amount |-> amount]
WithdrawRequest(account, amount) ==
    [type |-> "Withdraw", account |-> account, amount |-> amount]
TransferRequest(sender_account, receiver_account, amount) ==
    [type |-> "Transfer", sender_account |-> sender_account,
     receiver_account |-> receiver_account, amount |-> amount]
GetBalanceRequest(account) == [type |-> "GetBalance", account |-> account]
GetHistoryRequest == [type |-> "GetHistory"]
GetHistoryForAccountRequest(account) ==
    [type |-> "GetHistoryForAccount", account |-> account]

\* BankResponse::{Transaction, History, Balance}(Result<..>)
BankResponse(variant, result) == [variant |-> variant, result |-> result]

\* ResponsePayload::type(value)
ResponsePayload(type, value) == [type |-> type, value |-> value]
HandShakeEstablished == [type |-> "HandShakeEstablished"]

\* serde_json writes a finite f64 as a number and NaN or an infinity as null.
JsonNull == [json |-> "null"]
JsonNumber(m) == IF IsFinite(m) THEN [json |-> "number", v |-> m.v] ELSE JsonNull

HasAmount(payload) == payload.type \in {"Deposit", "Withdraw", "Transfer"}

\* Request::send: serde_json::to_vec(&self), the bytes of one frame.
request_to_vec(payload) ==
    [frame |-> "json",
     payload |-> IF HasAmount(payload)
                 THEN [payload EXCEPT !.amount = JsonNumber(@)]
                 ELSE payload]

\* Bytes that are not the JSON of any Request.
Garbage == [frame |-> "garbage"]
\* A read of zero bytes: the peer closed its end.
Eof == [frame |-> "eof"]

\* serde_json::from_slice::<Request>(received): null is not an f64.
request_from_slice(received) ==
    IF received.frame # "json" THEN Err([kind |-> "serde_json"])
    ELSE IF HasAmount(received.payload) /\ received.payload.amount = JsonNull
    THEN Err([kind |-> "serde_json"])
    ELSE IF HasAmount(received.payload)
    THEN Ok([received.payload EXCEPT !.amount = Fin(@.v)])
    ELSE Ok(received.payload)

\* Response::send: serde_json::to_vec(&self).
response_to_vec(payload) ==
    [frame |-> "json",
     payload |-> IF payload.type = "Balance"
                 THEN [payload EXCEPT !.value = JsonNumber(@)]
                 ELSE payload]

\* Display of BankError: the text of the variant, without its fields.
bank_error_to_string(error) ==
    [text |-> CASE error.kind = "AccountDuplication" -> "Account already exists"
                [] error.kind = "AmountNegative" -> "Amount must be positive"
                [] error.kind = "AccountNotFound" -> "Account does not exist"
                [] error.kind = "InsufficientFunds" -> "Insufficient funds"
                [] error.kind = "SomeAccountTransfer" -> "Cannot transfer to the same account"
                [] OTHER -> "panic"]

\* Display of InsufficientFundsError: `available` prints .amount and
\* `requested` prints .balance.
insufficient_funds_to_string(info) ==
    [text |-> "Insufficient funds for account", account |-> info.account,
     available |-> info.amount, requested |-> info.balance]

\* Display of SomeAccountTransferError.
some_account_transfer_to_string(info) ==
    [text |-> "Cannot transfer to the same account"]

TypeMismatchError == Err([kind |-> "TypeMismatch"])

\* create_account, process_deposit, process_withdraw, process_transfer,
\* process_get_balance, process_get_history, process_history_for_account:
\* the Response built from the actor's reply, or TypeMismatchError.
process_response(payload, processing_response) ==
    LET result == processing_response.result
        variant == processing_response.variant
        ty == payload.type
    IN
    IF ty = "OpenAccount" THEN
        IF variant # "Transaction" THEN TypeMismatchError
        ELSE IF result.ok THEN Ok(ResponsePayload("AccountCreated", result.value))
        ELSE Ok(ResponsePayload("AccountCreatedError", bank_error_to_string(result.error)))
    ELSE IF ty = "Deposit" THEN
        IF variant # "Transaction" THEN TypeMismatchError
        ELSE IF result.ok THEN Ok(ResponsePayload("DepositSuccess", result.value))
        ELSE Ok(ResponsePayload("DepositError", bank_error_to_string(result.error)))
    ELSE IF ty = "Withdraw" THEN
        IF variant # "Transaction" THEN TypeMismatchError
        ELSE IF result.ok THEN Ok(ResponsePayload("WithdrawSuccess", result.value))
        ELSE IF result.error.kind = "InsufficientFunds"
        THEN Ok(ResponsePayload("WithdrawalError", insufficient_funds_to_string(result.error)))
        ELSE Ok(ResponsePayload("Error", bank_error_to_string(result.error)))
    ELSE IF ty = "Transfer" THEN
        IF variant # "Transaction" THEN TypeMismatchError
        ELSE IF result.ok THEN Ok(ResponsePayload("TransferSuccess", result.value))
        ELSE IF result.error.kind = "SomeAccountTransfer"
        THEN Ok(ResponsePayload("SomeAccountError",
                                some_account_transfer_to_string(result.error)))
        ELSE Ok(ResponsePayload("Error", bank_error_to_string(result.error)))
    ELSE IF ty = "GetBalance" THEN
        IF variant # "Balance" THEN TypeMismatchError
        ELSE IF result.ok THEN Ok(ResponsePayload("Balance", result.value))
        ELSE Ok(ResponsePayload("Error", bank_error_to_string(result.error)))
    ELSE \* GetHistory, GetHistoryForAccount
        IF variant # "History" THEN TypeMismatchError
        ELSE IF result.ok THEN Ok(ResponsePayload("History", result.value))
        ELSE Ok(ResponsePayload("Error", bank_error_to_string(result.error)))

\* Mutant of Waiting: the handler does not block in recv() and goes on
\* reading.
Waiting_not(payload) == [pc |-> "reading"]

\* The position of a handler thread in handle_client_requests.
Absent == [pc |-> "absent"]
Reading == [pc |-> "reading"]
Waiting(payload) == [pc |-> "waiting", payload |-> payload]
\* Mutant of Returned: `return Ok(())` is missing and the loop goes on.
Returned_reading == [pc |-> "reading"]
Returned == [pc |-> "returned"]
Failed == [pc |-> "failed"]
Panicked == [pc |-> "panicked"]

\* No BankClient is connected on the connection (the peer of the server is a
\* plain socket).
NotConnected == [pc |-> "none"]

\* The frames the clients send.
ClientRequests ==
    { PingRequest, CloseConnectionRequest,
      OpenAccountRequest("A"),
      DepositRequest("A", Fin(1)), DepositRequest("A", NaN),
      WithdrawRequest("B", Fin(1)),
      TransferRequest("A", "B", Fin(1)), TransferRequest("A", "A", Fin(1)),
      GetBalanceRequest("A"), GetBalanceRequest("B"),
      GetHistoryRequest, GetHistoryForAccountRequest("A") }
ClientFrames == { request_to_vec(p) : p \in ClientRequests } \cup {Garbage}

\* A Bank the server holds after it served OpenAccount A, OpenAccount B and
\* Deposit (A, 1).
SeedBank ==
    deposit(create_account(create_account(NewBank, "A").bank, "B").bank,
            "A", Fin(1)).bank

ServerInit ==
    /\ bank \in {NewBank, SeedBank}
    /\ lastCall = NoCall
    /\ lastResult = Ok(0)
    /\ handler = [c \in Conns |-> Absent]
    /\ net_in = [c \in Conns |-> << >>]
    /\ net_out = [c \in Conns |-> << >>]
    /\ queue = << >>
    /\ reply = [c \in Conns |-> << >>]
    /\ actor_pc = "recv"
    /\ actor_cur = NoCall
    /\ sent = 0
    /\ client = [c \in Conns |-> NotConnected]

\* ---- clients ----
\* The client of c has not closed its socket.
ClientOpen(c) == \A i \in 1..Len(net_in[c]) : net_in[c][i] # Eof

\* A client writes one frame, whether or not the server has read the ones it
\* wrote before. The socket is a byte stream: a frame written behind unread
\* bytes is received together with them, and the whole is not the JSON of one
\* Request.
ClientSend(c) ==
    \E bytes \in ClientFrames :
        /\ sent < MaxFrames
        /\ ClientOpen(c)
        /\ handler[c].pc \in {"absent", "reading", "waiting"}
        /\ net_in' = [net_in EXCEPT ![c] = IF @ = << >> THEN << bytes >> ELSE << Garbage >>]
        /\ sent' = sent + 1
        /\ UNCHANGED << bankVars, client, handler, net_out, queue, reply, actor_pc, actor_cur >>

\* A client closes its socket without CloseConnection. The server learns of
\* it only from the read that returns no bytes, after every byte the client
\* wrote has been read; the close is taken at that point.
ClientShutdown(c) ==
    /\ ClientOpen(c)
    /\ handler[c].pc \in {"absent", "reading"}
    /\ net_in[c] = << >>
    /\ net_in' = [net_in EXCEPT ![c] = Append(@, Eof)]
    /\ UNCHANGED << bankVars, client, handler, net_out, queue, reply, actor_pc, actor_cur, sent >>

\* ---- main: accept and spawn ----
Accept(c) ==
    /\ handler[c] = Absent
    /\ handler' = [handler EXCEPT ![c] = Reading]
    /\ UNCHANGED << bankVars, client, net_in, net_out, queue, reply, actor_pc, actor_cur, sent >>

\* ---- handle_client_requests ----
HandlerReads(c) == handler[c] = Reading /\ net_in[c] # << >>

\* The bytes the client wrote and the server has not read.
Pending(c) == SelectSeq(net_in[c], LAMBDA f : f # Eof)

\* One pass of the read loop returns everything the client has written so far
\* (frames are far shorter than MAX_CHUNK_BYTE_SIZE): one frame, or several
\* frames back to back, which is not the JSON of one Request, or nothing when
\* the client closed.
Received(c) ==
    IF Pending(c) = << >> THEN Eof
    ELSE IF Len(Pending(c)) = 1 THEN Pending(c)[1]
    ELSE Garbage

\* What is left to read after that pass.
Unread(c) == SelectSeq(net_in[c], LAMBDA f : f = Eof)

\* Mutant of HandlerIoError: the error of one connection ends every handler
\* thread.
HandlerIoError_all(c) ==
    /\ handler[c] = Reading
    /\ handler' = [d \in Conns |-> Failed]
    /\ UNCHANGED << bankVars, client, net_in, net_out, queue, reply, actor_pc, actor_cur, sent >>

\* stream.read fails: `?` returns Err(Io).
HandlerIoError(c) ==
    /\ handler[c] = Reading
    /\ handler' = [handler EXCEPT ![c] = Failed]
    /\ UNCHANGED << bankVars, client, net_in, net_out, queue, reply, actor_pc, actor_cur, sent >>

\* received.is_empty(): return Ok(())
HandlerEndOfStream(c) ==
    /\ HandlerReads(c)
    /\ Received(c) = Eof
    /\ handler' = [handler EXCEPT ![c] = Returned]
    /\ UNCHANGED << bankVars, client, net_in, net_out, queue, reply, actor_pc, actor_cur, sent >>

\* Mutant of HandlerMalformed: the frame is dropped without a response.
HandlerMalformed_silent(c) ==
    /\ HandlerReads(c)
    /\ Received(c) # Eof
    /\ ~request_from_slice(Received(c)).ok
    /\ net_in' = [net_in EXCEPT ![c] = Unread(c)]
    /\ handler' = [handler EXCEPT ![c] = Panicked]
    /\ UNCHANGED << bankVars, client, net_out, queue, reply, actor_pc, actor_cur, sent >>

\* The frame does not deserialize: DeserializeError is sent, then req.unwrap()
\* panics and the thread ends.
HandlerMalformed(c) ==
    /\ HandlerReads(c)
    /\ Received(c) # Eof
    /\ ~request_from_slice(Received(c)).ok
    /\ net_in' = [net_in EXCEPT ![c] = Unread(c)]
    /\ net_out' = [net_out EXCEPT ![c] =
           Append(@, response_to_vec(ResponsePayload("DeserializeError",
                                                     [text |-> "serde_json"])))]
    /\ handler' = [handler EXCEPT ![c] = Panicked]
    /\ UNCHANGED << bankVars, client, queue, reply, actor_pc, actor_cur, sent >>

\* Mutant of HandlerPing: Ping goes through processing() like the requests of
\* the Bank.
HandlerPing_queued(c) ==
    /\ HandlerReads(c)
    /\ Received(c) # Eof
    /\ request_from_slice(Received(c)).ok
    /\ request_from_slice(Received(c)).value.type = "Ping"
    /\ net_in' = [net_in EXCEPT ![c] = Unread(c)]
    /\ queue' = Append(queue, [process |-> PingRequest, callback_chanel |-> c])
    /\ handler' = [handler EXCEPT ![c] = Waiting(PingRequest)]
    /\ UNCHANGED << bankVars, client, net_out, reply, actor_pc, actor_cur, sent >>

\* Ping => process_ping(), answered by the handler itself.
HandlerPing(c) ==
    /\ HandlerReads(c)
    /\ Received(c) # Eof
    /\ request_from_slice(Received(c)).ok
    /\ request_from_slice(Received(c)).value.type = "Ping"
    /\ net_in' = [net_in EXCEPT ![c] = Unread(c)]
    /\ net_out' = [net_out EXCEPT ![c] = Append(@, response_to_vec(HandShakeEstablished))]
    /\ UNCHANGED << bankVars, client, handler, queue, reply, actor_pc, actor_cur, sent >>

\* CloseConnection => stream.shutdown(Both); return Ok(())
HandlerClose(c) ==
    /\ HandlerReads(c)
    /\ Received(c) # Eof
    /\ request_from_slice(Received(c)).ok
    /\ request_from_slice(Received(c)).value.type = "CloseConnection"
    /\ net_in' = [net_in EXCEPT ![c] = Unread(c)]
    /\ handler' = [handler EXCEPT ![c] = Returned]
    /\ UNCHANGED << bankVars, client, net_out, queue, reply, actor_pc, actor_cur, sent >>

\* Mutant of HandlerSubmit: the handler does not wait for the reply and reads
\* the next request at once.
HandlerSubmit_and_read_on(c) ==
    /\ HandlerReads(c)
    /\ Received(c) # Eof
    /\ request_from_slice(Received(c)).ok
    /\ request_from_slice(Received(c)).value.type \notin {"Ping", "CloseConnection"}
    /\ LET payload == request_from_slice(Received(c)).value IN
       /\ queue' = Append(queue, [process |-> payload, callback_chanel |-> c])
       /\ handler' = [handler EXCEPT ![c] = Reading]
    /\ net_in' = [net_in EXCEPT ![c] = Unread(c)]
    /\ UNCHANGED << bankVars, client, net_out, reply, actor_pc, actor_cur, sent >>

\* processing(): a new reply channel, the payload and the channel's sender are
\* put on the actor's queue, and the handler blocks in recv().
HandlerSubmit(c) ==
    /\ HandlerReads(c)
    /\ Received(c) # Eof
    /\ request_from_slice(Received(c)).ok
    /\ request_from_slice(Received(c)).value.type \notin {"Ping", "CloseConnection"}
    /\ LET payload == request_from_slice(Received(c)).value IN
       /\ queue' = Append(queue, [process |-> payload, callback_chanel |-> c])
       /\ handler' = [handler EXCEPT ![c] = Waiting(payload)]
    /\ net_in' = [net_in EXCEPT ![c] = Unread(c)]
    /\ reply' = [reply EXCEPT ![c] = << >>]
    /\ UNCHANGED << bankVars, client, net_out, actor_pc, actor_cur, sent >>

\* Mutant of HandlerRespond: a reply that carries an error is dropped and the
\* handler reads on.
HandlerRespond_silent(c) ==
    /\ handler[c].pc = "waiting"
    /\ reply[c] # << >>
    /\ LET resp == process_response(handler[c].payload, Head(reply[c])) IN
       IF resp.ok /\ Head(reply[c]).result.ok
       THEN /\ net_out' = [net_out EXCEPT ![c] = Append(@, response_to_vec(resp.value))]
            /\ handler' = [handler EXCEPT ![c] = Reading]
       ELSE /\ net_out' = net_out
            /\ handler' = [handler EXCEPT ![c] = IF resp.ok THEN Reading ELSE Failed]
    /\ reply' = [reply EXCEPT ![c] = Tail(@)]
    /\ UNCHANGED << bankVars, client, net_in, queue, actor_pc, actor_cur, sent >>

\* recv() returns the actor's reply; the Response is built and sent.
HandlerRespond(c) ==
    /\ handler[c].pc = "waiting"
    /\ reply[c] # << >>
    /\ LET resp == process_response(handler[c].payload, Head(reply[c])) IN
       IF resp.ok
       THEN /\ net_out' = [net_out EXCEPT ![c] = Append(@, response_to_vec(resp.value))]
            /\ handler' = [handler EXCEPT ![c] = Reading]
       ELSE /\ net_out' = net_out
            /\ handler' = [handler EXCEPT ![c] = Failed]
    /\ reply' = [reply EXCEPT ![c] = Tail(@)]
    /\ UNCHANGED << bankVars, client, net_in, queue, actor_pc, actor_cur, sent >>

\* recv() returns the actor's reply, and resp.send fails: `?` returns Err(Io).
HandlerSendFails(c) ==
    /\ handler[c].pc = "waiting"
    /\ reply[c] # << >>
    /\ handler' = [handler EXCEPT ![c] = Failed]
    /\ reply' = [reply EXCEPT ![c] = Tail(@)]
    /\ UNCHANGED << bankVars, client, net_in, net_out, queue, actor_pc, actor_cur, sent >>

\* ---- create_processing_thread ----
\* Mutant of actor_ready: a second worker takes requests off the queue while
\* the first one is inside a call.
actor_always_ready(pc) == TRUE

\* The worker is in chanel_connector.recv() only between two requests.
actor_ready(pc) == pc = "recv"

\* Mutant of callback_send: the response is not put on the channel.
callback_send_dropped(callback_chanel, response) == reply

\* Mutant of callback_send: the response goes to the reply channel of another
\* connection.
callback_send_crossed(callback_chanel, response) ==
    [reply EXCEPT ![CHOOSE d \in Conns : d # callback_chanel] = Append(@, response)]

\* callback_chanel.send(response)
callback_send(callback_chanel, response) ==
    [reply EXCEPT ![callback_chanel] = Append(@, response)]

\* Mutant of actor_apply: the worker reports success without calling the Bank.
actor_apply_nothing(self, process) ==
    [bank |-> self, send |-> << BankResponse("Transaction", Ok(get_next_id(self))) >>]

\* What the worker does with a request other than a Transfer that passes its
\* checks: the Bank afterwards, and the response sent, if any.
actor_apply(self, process) ==
    LET ty == process.type IN
    IF ty = "OpenAccount" THEN
        LET o == create_account(self, process.account)
        IN [bank |-> o.bank, send |-> << BankResponse("Transaction", o.res) >>]
    ELSE IF ty = "Deposit" THEN
        LET o == deposit(self, process.account, process.amount)
        IN [bank |-> o.bank, send |-> << BankResponse("Transaction", o.res) >>]
    ELSE IF ty = "Withdraw" THEN
        LET o == withdraw(self, process.account, process.amount)
        IN [bank |-> o.bank, send |-> << BankResponse("Transaction", o.res) >>]
    ELSE IF ty = "Transfer" THEN
        LET o == transfer(self, process.sender_account, process.receiver_account,
                          process.amount)
        IN [bank |-> o.bank, send |-> << BankResponse("Transaction", o.res) >>]
    ELSE IF ty = "GetBalance" THEN
        [bank |-> self,
         send |-> << BankResponse("Balance", get_balance(self, process.account)) >>]
    ELSE IF ty = "GetHistory" THEN
        [bank |-> self, send |-> << BankResponse("History", get_history(self)) >>]
    ELSE \* _ => Ok(()): nothing is sent
        [bank |-> self, send |-> << >>]

TransferPasses(self, process) ==
    /\ process.type = "Transfer"
    /\ transfer_check(self, process.sender_account, process.receiver_account,
                      process.amount).ok

\* Mutant of ActorServe: the reply channels are rendezvous channels, so the
\* worker takes the next request only when every reply has been received.
ActorServe_rendezvous ==
    /\ actor_ready(actor_pc)
    /\ queue # << >>
    /\ \A c \in Conns : reply[c] = << >>
    /\ ~TransferPasses(bank, Head(queue).process)
    /\ LET a == actor_apply(bank, Head(queue).process) IN
       /\ bank' = a.bank
       /\ reply' = IF a.send = << >> THEN reply
                   ELSE callback_send(Head(queue).callback_chanel, a.send[1])
    /\ queue' = Tail(queue)
    /\ UNCHANGED << lastCall, lastResult, client, handler, net_in, net_out, actor_pc, actor_cur, sent >>

\* recv() returns a request; every request but a Transfer that passes its
\* checks is applied and answered.
ActorServe ==
    /\ actor_ready(actor_pc)
    /\ queue # << >>
    /\ ~TransferPasses(bank, Head(queue).process)
    /\ LET a == actor_apply(bank, Head(queue).process) IN
       /\ bank' = a.bank
       /\ reply' = IF a.send = << >> THEN reply
                   ELSE callback_send(Head(queue).callback_chanel, a.send[1])
    /\ queue' = Tail(queue)
    /\ UNCHANGED << lastCall, lastResult, client, handler, net_in, net_out, actor_pc, actor_cur, sent >>

\* recv() returns a Transfer that passes the checks of Bank::transfer.
ActorTransferBegin ==
    /\ actor_ready(actor_pc)
    /\ queue # << >>
    /\ TransferPasses(bank, Head(queue).process)
    /\ actor_cur' = Head(queue)
    /\ actor_pc' = "debit"
    /\ queue' = Tail(queue)
    /\ UNCHANGED << bankVars, client, handler, net_in, net_out, reply, sent >>

\* *sender_balance.borrow_mut() -= amount
ActorTransferDebit ==
    /\ actor_pc = "debit"
    /\ bank' = transfer_debit(bank, actor_cur.process.sender_account,
                              actor_cur.process.amount)
    /\ actor_pc' = "credit"
    /\ UNCHANGED << lastCall, lastResult, client, handler, net_in, net_out, queue, reply,
                    actor_cur, sent >>

\* Mutant of ActorTransferCredit: the worker's transfer loses the credit.
ActorTransferCredit_lost ==
    /\ actor_pc = "credit"
    /\ actor_pc' = "log"
    /\ UNCHANGED << bankVars, client, handler, net_in, net_out, queue, reply,
                    actor_cur, sent >>

\* *receiver_balance.borrow_mut() += amount
ActorTransferCredit ==
    /\ actor_pc = "credit"
    /\ bank' = transfer_credit(bank, actor_cur.process.receiver_account,
                               actor_cur.process.amount)
    /\ actor_pc' = "log"
    /\ UNCHANGED << lastCall, lastResult, client, handler, net_in, net_out, queue, reply,
                    actor_cur, sent >>

\* The Transfer operation is logged, transfer returns and the reply is sent.
ActorTransferLog ==
    /\ actor_pc = "log"
    /\ LET o == transfer_log(bank, actor_cur.process.sender_account,
                             actor_cur.process.receiver_account,
                             actor_cur.process.amount) IN
       /\ bank' = o.bank
       /\ reply' = callback_send(actor_cur.callback_chanel,
                                 BankResponse("Transaction", o.res))
    /\ actor_pc' = "recv"
    /\ actor_cur' = NoCall
    /\ UNCHANGED << lastCall, lastResult, client, handler, net_in, net_out, queue, sent >>

ServerNext ==
    \/ \E c \in Conns : ClientSend(c)
    \/ \E c \in Conns : ClientShutdown(c)
    \/ \E c \in Conns : Accept(c)
    \/ \E c \in Conns : HandlerIoError(c)
    \/ \E c \in Conns : HandlerEndOfStream(c)
    \/ \E c \in Conns : HandlerMalformed(c)
    \/ \E c \in Conns : HandlerPing(c)
    \/ \E c \in Conns : HandlerClose(c)
    \/ \E c \in Conns : HandlerSubmit(c)
    \/ \E c \in Conns : HandlerRespond(c)
    \/ \E c \in Conns : HandlerSendFails(c)
    \/ ActorServe
    \/ ActorTransferBegin
    \/ ActorTransferDebit
    \/ ActorTransferCredit
    \/ ActorTransferLog

ServerSpec == ServerInit /\ [][ServerNext]_vars

(***************************************************************************)
(* BankClient, talking to whatever is at the other end of its socket       *)
(* (hw1[345]/client/src/client.rs)                                         *)
(***************************************************************************)
\* Where a BankClient is: pc is "handshake" (connect wrote Ping and is in
\* Response::read), "ready" (connect returned the client, no call is running),
\* "calling" (a method wrote its request and is in Response::read), "failed"
\* (connect returned Err, there is no client) or "dropped"; read counts the
\* frames of the peer received so far; result is what the last call returned.
BankClientState(pc, read, call, result) ==
    [pc |-> pc, read |-> read, call |-> call, result |-> result]

\* The result of a call that has not returned yet.
Unfinished == Ok("unfinished")

\* ConnectError::{BadHandshake, Io}, ResponseError::{Io, UnexpectedResponse,
\* GenericError}
ClientError(kind) == Err([kind |-> kind])

\* The methods called on a client that connect returned.
ClientCalls == { OpenAccountRequest("A"), GetBalanceRequest("A") }

\* What a peer may write (a list: the payloads are of different shapes).
PeerFrames ==
    << response_to_vec(HandShakeEstablished),
       response_to_vec(ResponsePayload("AccountCreated", 1)),
       response_to_vec(ResponsePayload("Balance", Fin(1))),
       response_to_vec(ResponsePayload("Balance", PosInf)),
       response_to_vec(ResponsePayload("Error", [text |-> "Account does not exist"])),
       Garbage >>

\* The peer closed its end of connection c.
PeerClosed(c) == \E i \in 1..Len(net_out[c]) : net_out[c][i] = Eof

\* The frames of the peer, and those the client has not read yet.
PeerWritten(c) == SelectSeq(net_out[c], LAMBDA f : f # Eof)
ClientPending(c) == SubSeq(PeerWritten(c), client[c].read + 1, Len(PeerWritten(c)))

\* Response::read returns: there are bytes, or the peer closed.
ClientCanRead(c) == ClientPending(c) # << >> \/ PeerClosed(c)

\* The bytes one Response::read receives: everything written so far.
ClientReceived(c) ==
    IF ClientPending(c) = << >> THEN Eof
    ELSE IF Len(ClientPending(c)) = 1 THEN ClientPending(c)[1]
    ELSE Garbage

\* serde_json::from_slice::<Response>(received)?: an error becomes an
\* io::Error.
response_from_slice(received) ==
    IF received.frame # "json" THEN ClientError("Io")
    ELSE IF received.payload.type = "Balance" /\ received.payload.value = JsonNull
    THEN ClientError("Io")
    ELSE IF received.payload.type = "Balance"
    THEN Ok([received.payload EXCEPT !.value = Fin(@.v)])
    ELSE Ok(received.payload)

\* Mutant of handshake_result: every response that deserializes is taken for
\* the handshake.
handshake_result_any(resp) ==
    IF ~resp.ok THEN ClientError("Io") ELSE Ok("BankClient")

\* BankClient::handshake after `Response::read(&mut stream)`.
handshake_result(resp) ==
    IF ~resp.ok THEN ClientError("Io")
    ELSE IF resp.value # HandShakeEstablished THEN ClientError("BadHandshake")
    ELSE Ok("BankClient")

\* BankClient::create_account / get_balance after `Response::read`.
call_result(call, resp) ==
    IF ~resp.ok THEN ClientError("Io")
    ELSE IF call.type = "OpenAccount"
    THEN IF resp.value.type = "AccountCreated" THEN Ok(resp.value.value)
         ELSE ClientError("UnexpectedResponse")
    ELSE IF resp.value.type = "Balance" THEN Ok(resp.value.value)
         ELSE ClientError("GenericError")

ClientInit ==
    /\ bank = NewBank
    /\ lastCall = NoCall
    /\ lastResult = Ok(0)
    /\ handler = [c \in Conns |-> Absent]
    /\ net_in = [c \in Conns |-> << >>]
    /\ net_out = [c \in Conns |-> << >>]
    /\ queue = << >>
    /\ reply = [c \in Conns |-> << >>]
    /\ actor_pc = "recv"
    /\ actor_cur = NoCall
    /\ sent = 0
    /\ client = [c \in Conns |-> NotConnected]

\* connect: TcpStream::connect succeeds and handshake writes Ping.
BankClientConnect(c) ==
    /\ client[c] = NotConnected
    /\ sent < MaxFrames
    /\ net_in' = [net_in EXCEPT ![c] = Append(@, request_to_vec(PingRequest))]
    /\ sent' = sent + 1
    /\ client' = [client EXCEPT ![c] = BankClientState("handshake", 0, PingRequest, Unfinished)]
    /\ UNCHANGED << bankVars, handler, net_out, queue, reply, actor_pc, actor_cur >>

\* connect: TcpStream::connect(addr)? or stream.write(..)? fails.
BankClientConnectFails(c) ==
    /\ client[c] = NotConnected
    /\ client' = [client EXCEPT ![c] =
                     BankClientState("failed", 0, PingRequest, ClientError("Io"))]
    /\ UNCHANGED << bankVars, handler, net_in, net_out, queue, reply, actor_pc,
                    actor_cur, sent >>

\* handshake: Response::read returns and the response is compared.
BankClientHandshake(c) ==
    /\ client[c].pc = "handshake"
    /\ ClientCanRead(c)
    /\ LET r == handshake_result(response_from_slice(ClientReceived(c))) IN
       client' = [client EXCEPT ![c] =
                     BankClientState(IF r.ok THEN "ready" ELSE "failed",
                                     Len(PeerWritten(c)), PingRequest, r)]
    /\ UNCHANGED << bankVars, handler, net_in, net_out, queue, reply, actor_pc,
                    actor_cur, sent >>

\* stream.read fails inside Response::read.
BankClientReadFails(c) ==
    /\ client[c].pc \in {"handshake", "calling"}
    /\ client' = [client EXCEPT ![c] =
                     BankClientState(IF client[c].pc = "handshake" THEN "failed" ELSE "ready",
                                     client[c].read, client[c].call, ClientError("Io"))]
    /\ UNCHANGED << bankVars, handler, net_in, net_out, queue, reply, actor_pc,
                    actor_cur, sent >>

\* A method of the client writes its request.
BankClientCall(c) ==
    \E call \in ClientCalls :
        /\ client[c].pc = "ready"
        /\ sent < MaxFrames
        /\ net_in' = [net_in EXCEPT ![c] = Append(@, request_to_vec(call))]
        /\ sent' = sent + 1
        /\ client' = [client EXCEPT ![c] =
                         BankClientState("calling", client[c].read, call, Unfinished)]
        /\ UNCHANGED << bankVars, handler, net_out, queue, reply, actor_pc, actor_cur >>

\* The method's Response::read returns and the method returns.
BankClientReturn(c) ==
    /\ client[c].pc = "calling"
    /\ ClientCanRead(c)
    /\ client' = [client EXCEPT ![c] =
                     BankClientState("ready", Len(PeerWritten(c)), client[c].call,
                                     call_result(client[c].call,
                                                 response_from_slice(ClientReceived(c))))]
    /\ UNCHANGED << bankVars, handler, net_in, net_out, queue, reply, actor_pc,
                    actor_cur, sent >>

\* Drop for BankClient: CloseConnection is written, the socket shut down.
BankClientDrop(c) ==
    /\ client[c].pc = "ready"
    /\ net_in' = [net_in EXCEPT ![c] = Append(@, request_to_vec(CloseConnectionRequest))]
    /\ client' = [client EXCEPT ![c] =
                     BankClientState("dropped", client[c].read, CloseConnectionRequest,
                                     client[c].result)]
    /\ UNCHANGED << bankVars, handler, net_out, queue, reply, actor_pc, actor_cur, sent >>

\* The peer writes a frame.
PeerWrite(c) ==
    \E i \in 1..Len(PeerFrames) :
        /\ ~PeerClosed(c)
        /\ SumOver([d \in Conns |-> Len(PeerWritten(d))], Conns) < MaxFrames
        /\ net_out' = [net_out EXCEPT ![c] = Append(@, PeerFrames[i])]
        /\ UNCHANGED << bankVars, client, handler, net_in, queue, reply, actor_pc,
                        actor_cur, sent >>

\* The peer closes the connection.
PeerClose(c) ==
    /\ ~PeerClosed(c)
    /\ net_out' = [net_out EXCEPT ![c] = Append(@, Eof)]
    /\ UNCHANGED << bankVars, client, handler, net_in, queue, reply, actor_pc,
                    actor_cur, sent >>

ClientNext ==
    \/ \E c \in Conns : BankClientConnect(c)
    \/ \E c \in Conns : BankClientConnectFails(c)
    \/ \E c \in Conns : BankClientHandshake(c)
    \/ \E c \in Conns : BankClientReadFails(c)
    \/ \E c \in Conns : BankClientCall(c)
    \/ \E c \in Conns : BankClientReturn(c)
    \/ \E c \in Conns : BankClientDrop(c)
    \/ \E c \in Conns : PeerWrite(c)
    \/ \E c \in Conns : PeerClose(c)

ClientSpec == ClientInit /\ [][ClientNext]_vars



(***************************************************************************)
(* Properties of the Bank                                                  *)
(***************************************************************************)
Accounts(b) == DOMAIN b.accounts

\* An operation without its id.
Anonymous(o) == [source_account |-> o.source_account, amount |-> o.amount,
                 operation_type |-> o.operation_type]
AnonymousList(ops) == [i \in 1..Len(ops) |-> Anonymous(ops[i])]
Log(b) == history_values(b)
Mutating == {"create_account", "deposit", "withdraw", "transfer"}

\* The exact (real-number) sum of the balances, and of the logged amounts of
\* one operation type; only meaningful when all of them are finite.
SumBalances(b) == SumOver([a \in Accounts(b) |-> b.accounts[a].v], Accounts(b))
SumLogged(b, tag) ==
    LET ids == { i \in DOMAIN b.history : b.history[i].operation_type.tag = tag }
    IN SumOver([i \in ids |-> b.history[i].amount.v], ids)
AllFinite(b) ==
    /\ \A a \in Accounts(b) : IsFinite(b.accounts[a])
    /\ \A i \in DOMAIN b.history : IsFinite(b.history[i].amount)

\* C1 (as claimed): after any sequence of create_account, deposit, withdraw and
\* transfer calls every existing account's balance is >= 0.
C1_BalanceNeverNegative ==
    \A a \in Accounts(bank) : FLe(MONEY_ZERO, bank.accounts[a])

\* C2 (as claimed, and only for ledgers whose balances and logged amounts are
\* all finite numbers): the sum of all balances equals the sum of the logged
\* Deposit amounts minus the sum of the logged Withdraw amounts.
C2_SumOfBalances ==
    AllFinite(bank) =>
        SumBalances(bank) = SumLogged(bank, "Deposit") - SumLogged(bank, "Withdraw")

\* C3 (as claimed, for finite balances and amounts): a transfer between two
\* distinct existing accounts with 0 < amount <= balance(from) succeeds, takes
\* exactly amount from the sender, adds exactly amount to the receiver and
\* leaves every other balance unchanged.
C3_TransferMovesExactlyAmount ==
    [][ LET c == lastCall' IN
        ( /\ c.op = "transfer"
          /\ c.account # c.receiver_account
          /\ c.account \in Accounts(bank) /\ c.receiver_account \in Accounts(bank)
          /\ IsFinite(c.amount) /\ FLt(MONEY_ZERO, c.amount)
          /\ IsFinite(bank.accounts[c.account])
          /\ IsFinite(bank.accounts[c.receiver_account])
          /\ FLe(c.amount, bank.accounts[c.account]) )
        => /\ lastResult'.ok
           /\ bank'.accounts[c.account] = Fin(bank.accounts[c.account].v - c.amount.v)
           /\ bank'.accounts[c.receiver_account]
                 = Fin(bank.accounts[c.receiver_account].v + c.amount.v)
           /\ \A a \in Accounts(bank) \ {c.account, c.receiver_account} :
                 bank'.accounts[a] = bank.accounts[a]
      ]_vars


\* A Bank in which no call is half done: its balances and per-account histories
\* are the ones its own log yields, operation by operation.
Committed(b) ==
    LET r == replay_history(get_history(b).value, b.ulid_generator) IN
    /\ r.res.ok
    /\ r.bank.accounts = b.accounts
    /\ DOMAIN r.bank.accounts_history = DOMAIN b.accounts_history
    /\ \A a \in DOMAIN b.accounts_history :
          AnonymousList(get_account_history(r.bank, a).value)
             = AnonymousList(get_account_history(b, a).value)

\* C4: with several connections, every Balance or History reply the actor
\* sends is computed from a Bank in which no transfer is half done (no debit
\* without its credit, no changed balance without its logged Transfer), it is
\* the answer of that Bank to the request the connection is waiting on, and the
\* response written to the connection carries exactly that reply.
C4_TransferIndivisible ==
    [][ \A c \in Conns :
          /\ ( /\ reply'[c] # reply[c]
               /\ reply'[c] # << >>
               /\ reply'[c][1].variant \in {"Balance", "History"} )
             => /\ Committed(bank)
                /\ handler[c].pc = "waiting"
                /\ reply'[c][1] =
                      IF handler[c].payload.type = "GetBalance"
                      THEN BankResponse("Balance",
                                        get_balance(bank, handler[c].payload.account))
                      ELSE BankResponse("History", get_history(bank))
          /\ ( /\ Len(net_out'[c]) > Len(net_out[c])
               /\ net_out'[c][Len(net_out'[c])].payload.type \in {"Balance", "History"} )
             => /\ reply[c] # << >>
                /\ reply[c][1].result.ok
                /\ net_out'[c][Len(net_out'[c])] =
                      response_to_vec(ResponsePayload(reply[c][1].variant,
                                                      reply[c][1].result.value))
      ]_vars

\* C4 witness: a transfer has debited the sender and not yet credited the
\* receiver while a GetBalance or GetHistory of another connection is queued.
C4_Witness ==
    /\ actor_pc = "credit"
    /\ ~Committed(bank)
    /\ \E i \in 1..Len(queue) :
          /\ queue[i].process.type \in {"GetBalance", "GetHistory"}
          /\ queue[i].callback_chanel # actor_cur.callback_chanel


\* The per-account history of a (empty when the account has none).
HistoryOf(b, a) == IF a \in DOMAIN b.accounts_history THEN b.accounts_history[a] ELSE << >>

\* The accounts an accepted call references: its account, and the receiver
\* of a transfer.
Referenced(c) ==
    IF c.op = "transfer" THEN {c.account, c.receiver_account} ELSE {c.account}

\* C5: a successful create_account, deposit, withdraw or transfer adds exactly
\* one operation (under the returned id) to the log and appends exactly that id
\* to the history of each account it references and to no other; a failing
\* call adds nothing to the log or to any history.
C5_OneLogEntryPerSuccess ==
    [][ LET c == lastCall' IN
        c.op \in Mutating =>
          IF lastResult'.ok
          THEN LET id == lastResult'.value IN
               /\ id \notin DOMAIN bank.history
               /\ DOMAIN bank'.history = DOMAIN bank.history \cup {id}
               /\ \A i \in DOMAIN bank.history : bank'.history[i] = bank.history[i]
               /\ bank'.history[id].id = id
               /\ Len(Log(bank')) = Len(Log(bank)) + 1
               /\ \A a \in Codes :
                    HistoryOf(bank', a) =
                      IF a \in Referenced(c) THEN Append(HistoryOf(bank, a), id)
                      ELSE HistoryOf(bank, a)
          ELSE /\ bank'.history = bank.history
               /\ bank'.accounts_history = bank.accounts_history
      ]_vars

\* C5 witness: a transfer was accepted (two histories grew by the same id).
C5_Witness ==
    /\ lastCall.op = "transfer" /\ lastResult.ok
    /\ Len(HistoryOf(bank, lastCall.receiver_account)) = 2

\* C6: create_account on an existing code returns AccountDuplication for that
\* code and changes no account, balance, log or history; on a new code it
\* creates the account with balance 0 and logs one CreateAccount operation.
C6_CreateAccount ==
    [][ LET c == lastCall' IN
        c.op = "create_account" =>
          IF c.account \in Accounts(bank)
          THEN /\ lastResult' = Err(AccountDuplicationError(c.account))
               /\ bank'.accounts = bank.accounts
               /\ bank'.history = bank.history
               /\ bank'.accounts_history = bank.accounts_history
          ELSE /\ lastResult'.ok
               /\ Accounts(bank') = Accounts(bank) \cup {c.account}
               /\ bank'.accounts[c.account] = MONEY_ZERO
               /\ \A a \in Accounts(bank) : bank'.accounts[a] = bank.accounts[a]
               /\ DOMAIN bank'.history = DOMAIN bank.history \cup {lastResult'.value}
               /\ bank'.history[lastResult'.value] =
                      Operation(lastResult'.value, c.account, MONEY_ZERO, CreateAccountType)
      ]_vars

\* C6 witness: a second create_account on an account that holds money.
C6_Witness ==
    /\ lastCall.op = "create_account"
    /\ lastResult = Err(AccountDuplicationError(lastCall.account))
    /\ bank.accounts[lastCall.account] = Fin(1)

\* C7: deposit with amount <= 0 (zero included) on an existing account returns
\* AmountNegative with that account and amount and leaves the Bank as it was.
C7_DepositNotPositive ==
    [][ LET c == lastCall' IN
        (c.op = "deposit" /\ c.account \in Accounts(bank) /\ FLe(c.amount, MONEY_ZERO))
        => /\ ~lastResult'.ok
           /\ lastResult'.error.kind = "AmountNegative"
           /\ lastResult'.error.account = c.account
           /\ lastResult'.error.amount = c.amount
           /\ bank' = bank
      ]_vars

\* C7 witness: deposit of zero rejected on an account that holds money.
C7_Witness ==
    /\ lastCall.op = "deposit" /\ lastCall.amount = Fin(0)
    /\ lastResult = Err(AmountNegativeError(lastCall.account, Fin(0)))
    /\ bank.accounts[lastCall.account] = Fin(1)

\* C8: withdraw with amount > 0 and amount > balance on an existing account
\* returns InsufficientFunds with the account, the requested amount and the
\* current balance, and leaves every balance, the log and the histories as
\* they were.
C8_WithdrawInsufficientFunds ==
    [][ LET c == lastCall' IN
        ( /\ c.op = "withdraw" /\ c.account \in Accounts(bank)
          /\ FLt(MONEY_ZERO, c.amount)
          /\ FLt(bank.accounts[c.account], c.amount) )
        => /\ ~lastResult'.ok
           /\ lastResult'.error.kind = "InsufficientFunds"
           /\ lastResult'.error.account = c.account
           /\ lastResult'.error.amount = c.amount
           /\ lastResult'.error.balance = bank.accounts[c.account]
           /\ bank'.accounts = bank.accounts
           /\ bank'.history = bank.history
           /\ bank'.accounts_history = bank.accounts_history
      ]_vars

\* C8 witness: a withdrawal of more than the positive balance was refused.
C8_Witness ==
    /\ lastCall.op = "withdraw" /\ ~lastResult.ok
    /\ lastResult.error.kind = "InsufficientFunds"
    /\ lastResult.error.balance = Fin(1)
    /\ lastResult.error.amount = Fin(MaxFinite)

\* C9 (as claimed): transfer(A, A, x) returns SomeAccountTransfer for every
\* account code A and every amount x, and changes nothing.
C9_SameAccountAlways ==
    [][ LET c == lastCall' IN
        (c.op = "transfer" /\ c.account = c.receiver_account)
        => /\ lastResult' = Err(SomeAccountTransferError(c.account))
           /\ bank' = bank
      ]_vars

\* C9 (amended): transfer(A, A, x) on an existing account A returns
\* SomeAccountTransfer for every amount x and balance and changes nothing; on
\* a code that was never created it returns AccountNotFound.
C9_SameAccountExisting ==
    [][ LET c == lastCall' IN
        (c.op = "transfer" /\ c.account = c.receiver_account)
        => /\ lastResult' = IF c.account \in Accounts(bank)
                            THEN Err(SomeAccountTransferError(c.account))
                            ELSE Err(AccountNotFoundError(c.account))
           /\ bank' = bank
      ]_vars

\* C9 witness: a transfer of an amount the account could pay, to itself.
C9_Witness ==
    /\ lastCall.op = "transfer" /\ lastCall.account = lastCall.receiver_account
    /\ lastResult = Err(SomeAccountTransferError(lastCall.account))
    /\ lastCall.amount = Fin(1)
    /\ bank.accounts[lastCall.account] = Fin(MaxFinite)

\* C10: replay_history(get_history()) ends without a panic in a Bank with the
\* same accounts, the same balance for every account and, for every account,
\* the same ordered history of (type, source, target, amount).
C10_ReplayRoundTrip ==
    LET r == replay_history(get_history(bank).value, bank.ulid_generator) IN
    /\ r.res.ok
    /\ Accounts(r.bank) = Accounts(bank)
    /\ \A a \in Accounts(bank) :
         /\ get_balance(r.bank, a) = get_balance(bank, a)
         /\ get_account_history(r.bank, a).ok
         /\ AnonymousList(get_account_history(r.bank, a).value)
               = AnonymousList(get_account_history(bank, a).value)

\* C10 witness: the log replayed holds a create, a deposit and a transfer.
C10_Witness ==
    /\ C10_ReplayRoundTrip
    /\ Len(Log(bank)) = 4
    /\ \E i \in DOMAIN bank.history : bank.history[i].operation_type.tag = "Transfer"
    /\ \E a \in Accounts(bank) : bank.accounts[a] = Fin(1)

\* C11 (as claimed): the Bank built by replay_history from get_history() holds
\* every operation under the id it has in the source log, so
\* get_operation_by_id with an id of the source finds that operation in the
\* replayed Bank.
C11_ReplayKeepsIds ==
    LET r == replay_history(get_history(bank).value, bank.ulid_generator) IN
    r.res.ok =>
      /\ Len(Log(r.bank)) = Len(Log(bank))
      /\ \A i \in 1..Len(Log(bank)) :
           /\ Log(r.bank)[i].id = Log(bank)[i].id
           /\ get_operation_by_id(r.bank, Log(bank)[i].id) = Ok(Log(bank)[i])

\* C12: get_history returns all logged operations in acceptance order: the
\* operation a successful create_account, deposit, withdraw or transfer logs
\* comes after every operation accepted before it, whose order is kept.
C12_HistoryInAcceptanceOrder ==
    [][ (lastCall'.op \in Mutating /\ lastResult'.ok)
        => /\ get_history(bank').ok
           /\ Len(get_history(bank').value) = Cardinality(DOMAIN bank'.history)
           /\ get_history(bank').value
                = Append(get_history(bank).value, bank'.history[lastResult'.value])
      ]_vars

\* C12 witness: get_history lists four operations, the transfer accepted last
\* at the end.
C12_Witness ==
    /\ lastCall.op = "transfer" /\ lastResult.ok
    /\ Len(get_history(bank).value) = 4
    /\ get_history(bank).value[4].id = lastResult.value
    /\ get_history(bank).value[1].operation_type.tag = "CreateAccount"
    /\ get_history(bank).value[3].operation_type.tag = "Deposit"

\* The subsequence of the operations ops that reference account a as source
\* or as the target of a transfer.
RECURSIVE FilterReferencing(_, _)
FilterReferencing(ops, a) ==
    IF ops = << >> THEN << >>
    ELSE LET o == Head(ops)
             refs == \/ o.source_account = a
                     \/ /\ o.operation_type.tag = "Transfer"
                        /\ o.operation_type.target_account = a
         IN IF refs THEN << o >> \o FilterReferencing(Tail(ops), a)
            ELSE FilterReferencing(Tail(ops), a)

\* C13: for every existing account a, get_account_history(a) is the
\* subsequence of get_history() made of exactly the operations whose source or
\* target is a, in the same order, none missing and none twice.
C13_AccountHistoryIsFilter ==
    \A a \in Accounts(bank) :
        /\ get_account_history(bank, a).ok
        /\ get_account_history(bank, a).value
              = FilterReferencing(get_history(bank).value, a)

\* C13 witness: an account whose history holds its creation and a transfer it
\* received, next to two operations of another account.
C13_Witness ==
    /\ C13_AccountHistoryIsFilter
    /\ \E a \in Accounts(bank) :
         /\ Len(get_account_history(bank, a).value) = 2
         /\ Len(get_history(bank).value) = 4
         /\ \E i \in 1..2 :
              LET o == get_account_history(bank, a).value[i] IN
              o.operation_type.tag = "Transfer" /\ o.source_account # a

\* Account a was created: the log holds its CreateAccount operation.
Created(b, a) ==
    \E i \in DOMAIN b.history :
        /\ b.history[i].operation_type.tag = "CreateAccount"
        /\ b.history[i].source_account = a

\* C14: get_balance(code) and get_account_history(code) return AccountNotFound
\* carrying that code exactly when the code was never created and succeed for
\* every created account; neither call changes the Bank.
C14_NotFoundExactlyWhenNeverCreated ==
    [][ LET c == lastCall' IN
        c.op \in {"get_balance", "get_account_history"}
        => /\ bank' = bank
           /\ IF Created(bank, c.account)
              THEN lastResult'.ok
              ELSE /\ ~lastResult'.ok
                   /\ lastResult'.error.kind = "AccountNotFound"
                   /\ lastResult'.error.account = c.account
      ]_vars

\* C14 witness: get_balance of a code never created, in a Bank that holds
\* another account with a deposit.
C14_Witness ==
    /\ lastCall.op = "get_balance"
    /\ ~lastResult.ok
    /\ lastResult.error.kind = "AccountNotFound"
    /\ ~Created(bank, lastCall.account)
    /\ \E a \in Accounts(bank) : bank.accounts[a] = Fin(1)

\* The operation type a call logs.
TypeOfCall(c) ==
    IF c.op = "create_account" THEN CreateAccountType
    ELSE IF c.op = "deposit" THEN DepositType
    ELSE IF c.op = "withdraw" THEN WithdrawType
    ELSE TransferType(c.receiver_account)

\* C15: the id a successful create_account, deposit, withdraw or transfer
\* returns is found by get_operation_by_id with that call's type, source,
\* target and amount; an operation once found stays found, unchanged, after
\* every later call; the only ids that are found are ids returned by such a
\* call, every other id gives not-found.
C15_OperationById ==
    [][ LET c == lastCall' IN
        /\ (c.op \in Mutating /\ lastResult'.ok)
           => LET r == get_operation_by_id(bank', lastResult'.value) IN
              /\ r.ok
              /\ r.value.id = lastResult'.value
              /\ r.value.operation_type = TypeOfCall(c)
              /\ r.value.source_account = c.account
              /\ c.op # "create_account" => r.value.amount = c.amount
        /\ \A id \in DOMAIN bank.history :
              get_operation_by_id(bank', id) = Ok(bank.history[id])
        /\ DOMAIN bank'.history \subseteq
              DOMAIN bank.history \cup
                 (IF c.op \in Mutating /\ lastResult'.ok THEN {lastResult'.value} ELSE {})
        /\ c.op = "get_operation_by_id"
           => /\ lastResult'.ok <=> c.id \in DOMAIN bank.history
              /\ lastResult'.ok => lastResult'.value = bank.history[c.id]
              /\ ~lastResult'.ok => lastResult'.error.kind = "None"
      ]_vars

\* C15 witness: a deposit is looked up, and found, after later operations were
\* accepted.
C15_Witness ==
    /\ lastCall.op = "get_operation_by_id"
    /\ lastResult.ok
    /\ lastResult.value.operation_type.tag = "Deposit"
    /\ lastResult.value.id < bank.ulid_generator
    /\ Len(Log(bank)) = 4

\* Sequence s is a prefix of sequence t.
IsPrefix(s, t) == Len(s) <= Len(t) /\ \A i \in 1..Len(s) : s[i] = t[i]

\* C16: the ledger only grows: across every step no account disappears, the
\* earlier log is a prefix of the later log, and every per-account history
\* keeps its earlier entries as a prefix.
C16_LedgerOnlyGrows ==
    [][ bank' # bank
        => LET old == Log(bank)
               new == Log(bank')
           IN /\ Accounts(bank) \subseteq Accounts(bank')
              /\ IsPrefix(old, new)
              /\ DOMAIN bank.accounts_history \subseteq DOMAIN bank'.accounts_history
              /\ \A a \in DOMAIN bank.accounts_history :
                    IsPrefix(bank.accounts_history[a], bank'.accounts_history[a])
      ]_vars

\* C16 witness: a second account was added and a deposit logged after three
\* earlier operations.
C16_Witness ==
    /\ Cardinality(Accounts(bank)) = 2
    /\ lastCall.op = "deposit" /\ lastResult.ok
    /\ Len(Log(bank)) = 4
    /\ Len(HistoryOf(bank, lastCall.account)) = 3

(***************************************************************************)
(* Properties of the server                                                *)
(***************************************************************************)
\* The handler of c took bytes off its socket in this step.
Consumes(c) == Len(net_in'[c]) < Len(net_in[c])

\* A request of c is with the actor: queued, being applied, or answered on the
\* reply channel and not yet received by the handler.
Outstanding(c) ==
    \/ \E i \in 1..Len(queue) : queue[i].callback_chanel = c
    \/ (actor_pc # "recv" /\ actor_cur.callback_chanel = c)
    \/ reply[c] # << >>

\* The requests of c on the queue, oldest first.
QueuedOf(q, c) == SelectSeq(q, LAMBDA e : e.callback_chanel = c)

C18_HistoryForAccountAnswered ==
    [][ ( /\ queue # << >>
          /\ queue' = Tail(queue)
          /\ Head(queue).process.type = "GetHistoryForAccount" )
        => LET c == Head(queue).callback_chanel IN
           reply'[c] = << BankResponse("History",
                             get_account_history(bank, Head(queue).process.account)) >>
      ]_vars

\* The handler of c has answered a Ping with HandShakeEstablished.
HandshakeDone(c) ==
    \E i \in 1..Len(net_out[c]) : net_out[c][i] = response_to_vec(HandShakeEstablished)

\* C19 (as claimed): no request of a connection reaches the Processing Actor
\* before the server has answered a Ping on that connection with
\* HandShakeEstablished.
C19_HandshakeFirst ==
    /\ \A i \in 1..Len(queue) : HandshakeDone(queue[i].callback_chanel)
    /\ \A c \in Conns : handler[c].pc = "waiting" => HandshakeDone(c)

(***************************************************************************)
(* Properties of the client                                                *)
(***************************************************************************)
\* connect has returned a BankClient on connection c.
HasClient(c) == client[c].pc \in {"ready", "calling", "dropped"}

\* The first thing the client on c received, as Response::read returns it.
FirstResponse(c) == response_from_slice(ClientReceived(c))

\* C20: BankClient::connect returns a client only after it wrote Ping and the
\* first response it read was HandShakeEstablished; a first response that is
\* any other payload makes connect return BadHandshake, a failed connect,
\* write or read (a response that cannot be read included) makes it return
\* an Io error, and after either no client exists: nothing more is ever
\* written on that connection.
C20_ConnectNeedsHandshake ==
    [][\A c \in Conns :
        /\ (~HasClient(c) /\ HasClient(c)')
              => /\ client[c].pc = "handshake"
                 /\ net_in[c] = << request_to_vec(PingRequest) >>
                 /\ client[c].read = 0
                 /\ PeerWritten(c) = << response_to_vec(HandShakeEstablished) >>
                 /\ client'[c].pc = "ready"
        /\ (client[c].pc = "handshake" /\ client'[c].pc # client[c].pc
               /\ client'[c].read > client[c].read
               /\ FirstResponse(c).ok)
              => IF FirstResponse(c).value = HandShakeEstablished
                 THEN client'[c].pc = "ready"
                 ELSE /\ client'[c].pc = "failed"
                      /\ client'[c].result = Err([kind |-> "BadHandshake"])
        /\ (client[c].pc \in {"none", "handshake"} /\ client'[c].pc # client[c].pc
               /\ client'[c].pc # "handshake"
               /\ ~(client[c].pc = "handshake"
                      /\ client'[c].read > client[c].read
                      /\ FirstResponse(c).ok))
              => /\ client'[c].pc = "failed"
                 /\ client'[c].result = Err([kind |-> "Io"])
        /\ client[c].pc = "failed"
              => /\ client'[c].pc = "failed"
                 /\ ~client'[c].result.ok
                 /\ client'[c].result.error = client[c].result.error
                 /\ net_in'[c] = net_in[c]
        /\ (net_in'[c] # net_in[c] /\ ~HasClient(c))
              => /\ client[c].pc = "none"
                 /\ net_in'[c] = << request_to_vec(PingRequest) >>
      ]_vars

\* One connect returned BadHandshake on a first response that was not the
\* handshake, while on the other connection connect read HandShakeEstablished
\* and returned a client.
C20_Witness ==
    /\ client["c1"].pc = "failed"
    /\ client["c1"].result = Err([kind |-> "BadHandshake"])
    /\ client["c1"].read = 1
    /\ client["c2"].pc = "ready"
    /\ client["c2"].read = 1
    /\ net_in["c2"] = << request_to_vec(PingRequest) >>

(***************************************************************************)
(* Properties of the handlers and of the Processing Actor                  *)
(***************************************************************************)
\* C21: when the handler of a connection reads a CloseConnection request it
\* ends (the socket is shut down in both directions and the thread returns)
\* without writing a response and without handing anything to the actor, the
\* ledger is left alone, and from then on it reads nothing more from that
\* connection, writes nothing to it and submits nothing for it.
C21_CloseConnectionEndsHandler ==
    [][ \A c \in Conns :
          LET req == request_from_slice(Received(c)) IN
          /\ (Consumes(c) /\ req.ok /\ req.value.type = "CloseConnection")
             => /\ handler'[c].pc = "returned"
                /\ net_out' = net_out
                /\ queue' = queue
                /\ reply' = reply
                /\ bank' = bank
          /\ handler[c].pc = "returned"
             => /\ handler'[c].pc = "returned"
                /\ net_in'[c] = net_in[c]
                /\ net_out'[c] = net_out[c]
                /\ Len(QueuedOf(queue', c)) <= Len(QueuedOf(queue, c))
      ]_vars

\* C21 witness: a connection sent Ping and then CloseConnection; its handler
\* answered the Ping, read the CloseConnection and returned, and nothing was
\* written after HandShakeEstablished.
C21_Witness ==
    \E c \in Conns :
        /\ handler[c].pc = "returned"
        /\ net_in[c] = << >>
        /\ net_out[c] = << response_to_vec(HandShakeEstablished) >>
        /\ sent = 2

\* C22: when the handler of a connection reads bytes that are not the JSON of
\* a Request it writes one DeserializeError response and no other, hands
\* nothing to the actor and leaves the ledger as it was; no second response
\* for those bytes follows.
C22_MalformedFrameAnswered ==
    [][ \A c \in Conns :
          /\ (Consumes(c) /\ ~request_from_slice(Received(c)).ok)
             => /\ Len(net_out'[c]) = Len(net_out[c]) + 1
                /\ net_out'[c][Len(net_out'[c])].payload.type = "DeserializeError"
                /\ \A d \in Conns \ {c} : net_out'[d] = net_out[d]
                /\ queue' = queue
                /\ reply' = reply
                /\ bank' = bank
                /\ actor_pc' = actor_pc
          /\ handler[c].pc = "panicked"
             => /\ net_out'[c] = net_out[c]
                /\ Len(QueuedOf(queue', c)) <= Len(QueuedOf(queue, c))
      ]_vars

\* C22 witness: a connection sent bytes that are no Request to a server whose
\* ledger holds three operations; DeserializeError is the one response on
\* that connection, nothing is queued and the ledger is the same.
C22_Witness ==
    \E c \in Conns :
        /\ handler[c].pc = "panicked"
        /\ Len(net_out[c]) = 1
        /\ net_out[c][1].payload.type = "DeserializeError"
        /\ queue = << >>
        /\ bank = SeedBank

\* C23: the actor's queue is first in, first out (requests are added at its
\* end and taken from its front); the actor takes a request only when it is
\* not inside another one, and the Bank changes only by the actor applying
\* the request it took: the oldest on the queue. A reply is put on the channel
\* of the request it answers, in the step that finishes applying that
\* request, and leaves the actor ready for the next one; every request the
\* actor has a reply for (all but GetHistoryForAccount) gets it in that step.
C23_ActorFifoOneAtATime ==
    [][ /\ Len(queue') > Len(queue)
           => /\ Len(queue') = Len(queue) + 1
              /\ SubSeq(queue', 1, Len(queue)) = queue
        /\ Len(queue') < Len(queue)
           => /\ queue' = Tail(queue)
              /\ actor_pc = "recv"
              /\ IF TransferPasses(bank, Head(queue).process)
                 THEN /\ actor_cur' = Head(queue)
                      /\ actor_pc' # "recv"
                      /\ bank' = bank
                      /\ reply' = reply
                 ELSE /\ bank' = actor_apply(bank, Head(queue).process).bank
                      /\ actor_pc' = "recv"
                      /\ Head(queue).process.type # "GetHistoryForAccount"
                         => Len(reply'[Head(queue).callback_chanel]) =
                               Len(reply[Head(queue).callback_chanel]) + 1
        /\ (actor_pc # "recv" /\ actor_pc' = "recv")
           => Len(reply'[actor_cur.callback_chanel]) =
                 Len(reply[actor_cur.callback_chanel]) + 1
        /\ bank' # bank => (actor_pc # "recv" \/ Len(queue') < Len(queue))
        /\ \A c \in Conns :
              Len(reply'[c]) > Len(reply[c])
              => /\ actor_pc' = "recv"
                 /\ Len(reply'[c]) = Len(reply[c]) + 1
                 /\ IF actor_pc = "recv"
                    THEN /\ Len(queue') < Len(queue)
                         /\ Head(queue).callback_chanel = c
                         /\ reply'[c][Len(reply'[c])] =
                               actor_apply(bank, Head(queue).process).send[1]
                    ELSE /\ actor_pc = "log"
                         /\ actor_cur.callback_chanel = c
                         /\ queue' = queue
      ]_vars

\* C23 witness: two connections have a request with the actor; the reply to
\* the first is on its channel, its handler has not taken it yet, the request
\* of the second is still on the queue and the actor is ready for it.
C23_Witness ==
    /\ Len(queue) = 1
    /\ queue[1].callback_chanel = "c2"
    /\ handler["c1"].pc = "waiting"
    /\ Len(reply["c1"]) = 1
    /\ actor_pc = "recv"
    /\ Len(Log(bank)) = 1

\* Operation op is what a successful request with this payload logs.
LoggedAs(process, op) ==
    IF process.type = "OpenAccount"
    THEN op.operation_type.tag = "CreateAccount" /\ op.source_account = process.account
    ELSE IF process.type = "Deposit"
    THEN /\ op.operation_type.tag = "Deposit"
         /\ op.source_account = process.account
         /\ op.amount = process.amount
    ELSE IF process.type = "Withdraw"
    THEN /\ op.operation_type.tag = "Withdraw"
         /\ op.source_account = process.account
         /\ op.amount = process.amount
    ELSE /\ process.type = "Transfer"
         /\ op.operation_type.tag = "Transfer"
         /\ op.source_account = process.sender_account
         /\ op.operation_type.target_account = process.receiver_account
         /\ op.amount = process.amount

\* C24: whatever the connections do, the log grows by one operation at a
\* time, at its end, and that operation is the one of the request the actor
\* dequeued last (the head of the queue, or the transfer it is inside);
\* every request the actor answers with a transaction id has put its
\* operation there before the actor dequeues again; and while the actor is
\* inside a request nothing else is dequeued, so no two mutations overlap.
C24_LogOrderIsDequeueOrder ==
    [][ LET old == Log(bank)
            new == Log(bank')
        IN
        /\ bank'.history # bank.history
           => /\ Len(new) = Len(old) + 1
              /\ IsPrefix(old, new)
              /\ \A i \in 1..Len(old) : old[i].id < new[Len(new)].id
              /\ actor_pc' = "recv"
              /\ IF actor_pc = "recv"
                 THEN /\ Len(queue') < Len(queue)
                      /\ LoggedAs(Head(queue).process, new[Len(new)])
                 ELSE /\ actor_pc = "log"
                      /\ LoggedAs(actor_cur.process, new[Len(new)])
        /\ \A c \in Conns :
              ( /\ Len(reply'[c]) > Len(reply[c])
                /\ reply'[c][Len(reply'[c])].variant = "Transaction"
                /\ reply'[c][Len(reply'[c])].result.ok )
              => /\ Len(new) = Len(old) + 1
                 /\ new[Len(new)].id = reply'[c][Len(reply'[c])].result.value
        /\ actor_pc # "recv"
           => /\ Len(queue') >= Len(queue)
              /\ actor_pc' = "recv" \/ actor_cur' = actor_cur
        /\ (bank'.accounts # bank.accounts)
           => (actor_pc \in {"debit", "credit"} \/ Len(queue') < Len(queue))
      ]_vars

\* C24 witness: two connections each had a request applied; the log holds
\* the two operations, the one of the request dequeued first in front.
C24_Witness ==
    /\ Len(Log(bank)) = 2
    /\ Len(net_out["c1"]) = 1
    /\ net_out["c1"][1].payload.type = "DepositSuccess"
    /\ Len(net_out["c2"]) = 1
    /\ net_out["c2"][1].payload.type = "AccountCreated"
    /\ net_out["c2"][1].payload.value = Log(bank)[1].id
    /\ net_out["c1"][1].payload.value = Log(bank)[2].id

\* A request applied on its own to Bank b, as a sequential caller of the
\* library would: the Bank afterwards and the result.
Sequential(b, process) ==
    IF process.type = "OpenAccount" THEN create_account(b, process.account)
    ELSE IF process.type = "Deposit" THEN deposit(b, process.account, process.amount)
    ELSE IF process.type = "Withdraw" THEN withdraw(b, process.account, process.amount)
    ELSE transfer(b, process.sender_account, process.receiver_account, process.amount)

\* C25: with the connections interleaving their requests on shared accounts
\* no update is lost. Whenever the actor is between two requests (at the
\* start, and after every step that changed the Bank) the balances
\* (and per-account histories) are those that replaying the log, which is the
\* sequence of the successful requests in dequeue order, gives on an empty
\* Bank; a request dequeued and answered in one go leaves the Bank and sends
\* the reply that its sequential application to the Bank before it gives;
\* and a transfer that ends replies with the id of the Transfer it logged.
C25_NoLostUpdate ==
    [][ /\ bank \in {NewBank, SeedBank} => Committed(bank)
        /\ (actor_pc' = "recv" /\ bank' # bank) => Committed(bank')
        /\ ( /\ Len(queue') < Len(queue)
             /\ actor_pc' = "recv"
             /\ Head(queue).process.type \in {"OpenAccount", "Deposit", "Withdraw", "Transfer"} )
           => LET c == Head(queue).callback_chanel
                  o == Sequential(bank, Head(queue).process)
              IN /\ bank' = o.bank
                 /\ Len(reply'[c]) = Len(reply[c]) + 1
                 /\ reply'[c][Len(reply'[c])].variant = "Transaction"
                 /\ reply'[c][Len(reply'[c])].result.ok = o.res.ok
                 /\ IF o.res.ok
                    THEN reply'[c][Len(reply'[c])].result.value = o.res.value
                    ELSE reply'[c][Len(reply'[c])].result.error = o.res.error
        /\ (actor_pc = "log" /\ actor_pc' = "recv")
           => LET c == actor_cur.callback_chanel
                  r == reply'[c][Len(reply'[c])]
              IN /\ Len(reply'[c]) = Len(reply[c]) + 1
                 /\ r.variant = "Transaction"
                 /\ r.result.ok
                 /\ Len(Log(bank')) = Len(Log(bank)) + 1
                 /\ r.result.value = Log(bank')[Len(Log(bank'))].id
                 /\ LoggedAs(actor_cur.process, Log(bank')[Len(Log(bank'))])
      ]_vars

\* C25 witness: on a Bank with accounts A (balance 1) and B (balance 0) one
\* connection transferred 1 from A to B and the other deposited 1 to A; both
\* got their success and the balances are 1 and 1.
C25_Witness ==
    /\ actor_pc = "recv"
    /\ Len(Log(bank)) = 5
    /\ \E c, d \in Conns :
          /\ c # d
          /\ Len(net_out[c]) = 1 /\ net_out[c][1].payload.type = "TransferSuccess"
          /\ Len(net_out[d]) = 1 /\ net_out[d][1].payload.type = "DepositSuccess"
    /\ bank.accounts["A"] = Fin(1)
    /\ bank.accounts["B"] = Fin(1)

\* The error response of the server for a request of this type that the Bank
\* refused with this error.
ErrorResponse(type, error) ==
    IF type = "OpenAccount"
    THEN ResponsePayload("AccountCreatedError", bank_error_to_string(error))
    ELSE IF type = "Deposit"
    THEN ResponsePayload("DepositError", bank_error_to_string(error))
    ELSE IF type = "Withdraw" /\ error.kind = "InsufficientFunds"
    THEN ResponsePayload("WithdrawalError", insufficient_funds_to_string(error))
    ELSE IF type = "Transfer" /\ error.kind = "SomeAccountTransfer"
    THEN ResponsePayload("SomeAccountError", some_account_transfer_to_string(error))
    ELSE ResponsePayload("Error", bank_error_to_string(error))

BusinessErrors ==
    {"AccountDuplication", "AmountNegative", "AccountNotFound", "InsufficientFunds",
     "SomeAccountTransfer"}

\* C26: an error of the Bank for an OpenAccount, Deposit, Withdraw, Transfer
\* or GetBalance request reaches the handler that waits for it, in the reply
\* variant that handler expects; when the handler takes it, then, unless the
\* transport fails, it writes exactly one response, the error response of that
\* request type with the text of the error, and is reading the next request
\* of the connection; the actor is left ready for the next request.
C26_BusinessErrorReported ==
    [][ \A c \in Conns :
          /\ ( /\ Len(reply'[c]) > Len(reply[c])
               /\ ~reply'[c][Len(reply'[c])].result.ok )
             => /\ handler[c].pc = "waiting"
                /\ handler[c].payload.type \in
                      {"OpenAccount", "Deposit", "Withdraw", "Transfer", "GetBalance"}
                /\ reply'[c][Len(reply'[c])].variant =
                      IF handler[c].payload.type = "GetBalance"
                      THEN "Balance" ELSE "Transaction"
                /\ reply'[c][Len(reply'[c])].result.error.kind \in BusinessErrors
                /\ actor_pc' = "recv"
                /\ handler'[c] = handler[c]
          /\ ( /\ handler[c].pc = "waiting"
               /\ reply[c] # << >>
               /\ ~Head(reply[c]).result.ok
               /\ handler'[c].pc # "waiting" )
             => \/ /\ handler'[c].pc = "failed"
                   /\ net_out'[c] = net_out[c]
                \/ /\ handler'[c].pc = "reading"
                   /\ Len(net_out'[c]) = Len(net_out[c]) + 1
                   /\ IsPrefix(net_out[c], net_out'[c])
                   /\ net_out'[c][Len(net_out'[c])] =
                         response_to_vec(ErrorResponse(handler[c].payload.type,
                                                       Head(reply[c]).result.error))
      ]_vars

\* C26 witness: a connection deposited to an account that does not exist, got
\* DepositError, then opened the account on the same connection and got
\* AccountCreated.
C26_Witness ==
    \E c \in Conns :
        /\ Len(net_out[c]) = 2
        /\ net_out[c][1].payload.type = "DepositError"
        /\ net_out[c][1].payload.value.text = "Account does not exist"
        /\ net_out[c][2].payload.type = "AccountCreated"
        /\ handler[c].pc = "reading"

\* The handler thread of c has ended: by an I/O error, at the end of the
\* stream or a CloseConnection, or by a panic.
Dead(c) == handler[c].pc \in {"failed", "returned", "panicked"}

\* The transaction ids the server has acknowledged to its clients.
Acknowledged ==
    UNION { { net_out[c][i].payload.value :
                i \in { j \in 1..Len(net_out[c]) :
                          net_out[c][j].payload.type \in
                             {"AccountCreated", "DepositSuccess", "WithdrawSuccess",
                              "TransferSuccess"} } } : c \in Conns }

\* C27: when the handler of a connection has ended, whatever ended it, the
\* actor is not stopped (it can take the next request off its queue, or go on
\* with the transfer it is inside), the ledger still holds every operation
\* the server acknowledged on any connection, and the other connections are
\* still served: a request of theirs that is with the actor has its handler
\* waiting for the reply, a reply that arrived can be written, and bytes
\* that arrived can be read.
C27_FailureIsLocal ==
    \A c \in Conns :
        Dead(c)
        => /\ (actor_pc = "recv" /\ queue # << >>)
                 => ENABLED (ActorServe \/ ActorTransferBegin)
           /\ actor_pc # "recv"
                 => ENABLED (ActorTransferDebit \/ ActorTransferCredit \/ ActorTransferLog)
           /\ \A id \in Acknowledged : \E i \in 1..Len(Log(bank)) : Log(bank)[i].id = id
           /\ \A d \in Conns \ {c} :
                 /\ Outstanding(d) => handler[d].pc = "waiting"
                 /\ (handler[d].pc = "waiting" /\ reply[d] # << >>)
                       => ENABLED HandlerRespond(d)
                 /\ (handler[d].pc = "reading" /\ Pending(d) # << >>)
                       => ENABLED (HandlerPing(d) \/ HandlerClose(d) \/ HandlerSubmit(d)
                                     \/ HandlerMalformed(d))

\* C27 witness: the handler of one connection has ended on an I/O error; a
\* request of the other connection has been applied (the log holds four
\* operations), its reply is on the channel and its handler waits for it.
C27_Witness ==
    /\ handler["c1"].pc = "failed"
    /\ handler["c2"].pc = "waiting"
    /\ reply["c2"] # << >>
    /\ queue = << >>
    /\ Len(Log(bank)) = 4

\* C28: the ledger (accounts, balances, log, per-account histories) changes
\* only in a step of the actor: one that takes a request off the queue or
\* goes on with the transfer the actor is inside, and in which no handler
\* moves and no socket is read or written. Every step of a handler (reading
\* a frame, answering Ping, ending on CloseConnection, reporting a frame that
\* is no Request, writing a response) leaves the Bank as it is, and a Ping
\* is answered with HandShakeEstablished by the handler itself, with nothing
\* put on the actor's queue.
C28_OnlyActorChangesLedger ==
    [][ /\ bank' # bank
           => /\ (Len(queue') < Len(queue) \/ actor_pc # "recv")
              /\ handler' = handler
              /\ net_in' = net_in
              /\ net_out' = net_out
        /\ \A c \in Conns :
              /\ (handler'[c].pc # handler[c].pc \/ Consumes(c)
                     \/ Len(net_out'[c]) # Len(net_out[c]))
                 => /\ bank' = bank
                    /\ actor_pc' = actor_pc
                    /\ Len(queue') >= Len(queue)
              /\ ( /\ Consumes(c)
                   /\ request_from_slice(Received(c)).ok
                   /\ request_from_slice(Received(c)).value.type = "Ping" )
                 => /\ queue' = queue
                    /\ reply' = reply
                    /\ handler'[c].pc = "reading"
                    /\ net_out'[c] =
                          Append(net_out[c], response_to_vec(HandShakeEstablished))
      ]_vars

\* C28 witness: on a server whose ledger holds three operations a connection
\* sent Ping and a frame that is no Request, one after the other; both were
\* answered by the handler, the queue is empty and the ledger is the same.
C28_Witness ==
    \E c \in Conns :
        /\ Len(net_out[c]) = 2
        /\ net_out[c][1] = response_to_vec(HandShakeEstablished)
        /\ net_out[c][2].payload.type = "DeserializeError"
        /\ bank = SeedBank
        /\ queue = << >>
        /\ actor_pc = "recv"

\* Connection c is stalled: its handler is blocked reading from a client that
\* sends nothing, or holds a reply it has not written to a client that does
\* not read.
Stalled(c) ==
    \/ (handler[c].pc = "reading" /\ net_in[c] = << >>)
    \/ (handler[c].pc = "waiting" /\ reply[c] # << >>)

\* C29: a stalled connection holds up nobody else. The actor waits for
\* nothing but its queue: whenever a request is on the queue and the actor is
\* between two requests it can take that request, and inside a transfer it
\* can go on, whatever the sockets and the reply channels hold; and the
\* handler of any other connection can write the reply it was sent and can
\* read the bytes that arrived for it.
C29_StalledClientBlocksOnlyItself ==
    /\ (actor_pc = "recv" /\ queue # << >>) => ENABLED (ActorServe \/ ActorTransferBegin)
    /\ actor_pc = "debit" => ENABLED ActorTransferDebit
    /\ actor_pc = "credit" => ENABLED ActorTransferCredit
    /\ actor_pc = "log" => ENABLED ActorTransferLog
    /\ \A c \in Conns :
          Stalled(c)
          => \A d \in Conns \ {c} :
                /\ (handler[d].pc = "waiting" /\ reply[d] # << >>)
                      => ENABLED HandlerRespond(d)
                /\ (handler[d].pc = "reading" /\ Pending(d) # << >>)
                      => ENABLED (HandlerPing(d) \/ HandlerClose(d) \/ HandlerSubmit(d)
                                    \/ HandlerMalformed(d))
                /\ (handler[d].pc = "waiting" /\ reply[d] = << >>
                       /\ handler[d].payload.type # "GetHistoryForAccount")
                      => \/ \E i \in 1..Len(queue) : queue[i].callback_chanel = d
                         \/ (actor_pc # "recv" /\ actor_cur.callback_chanel = d)

\* C29 witness: the reply to the request of one connection is on its channel
\* and has not been written, while the request of the other connection, which
\* the actor took later, has been answered on its socket.
C29_Witness ==
    \E c, d \in Conns :
        /\ c # d
        /\ handler[c].pc = "waiting"
        /\ Len(reply[c]) = 1
        /\ reply[c][1].variant = "Transaction"
        /\ reply[c][1].result.ok
        /\ Len(net_out[d]) = 1
        /\ net_out[d][1].payload.type \in {"DepositSuccess", "TransferSuccess"}
        /\ reply[c][1].result.value < net_out[d][1].payload.value

\* C30 (as claimed): the handler of a connection leaves its loop only when it
\* reads CloseConnection or nothing (the client closed) or the transport
\* fails: after answering a frame that is no Request, and after writing the
\* error response of a request the Bank refused, it is back at reading the
\* next request of that connection.
C30_LoopSurvivesBadRequests ==
    [][ \A c \in Conns :
          /\ (Consumes(c) /\ ~request_from_slice(Received(c)).ok)
             => handler'[c].pc = "reading"
          /\ ( /\ handler[c].pc = "waiting"
               /\ Len(net_out'[c]) = Len(net_out[c]) + 1
               /\ ~Head(reply[c]).result.ok )
             => handler'[c].pc = "reading"
          /\ handler'[c].pc = "panicked" => handler[c].pc = "panicked"
      ]_vars

(***************************************************************************)
(* Further properties of the Bank                                          *)
(***************************************************************************)
\* The kind and the account of the first check of call c that fails on Bank
\* b, "" when none fails. The checks, in order: the (sender) account exists,
\* the receiver exists (transfer), sender and receiver differ (transfer), the
\* amount is positive (it fails when amount <= 0), the balance covers the
\* amount (withdraw, transfer; it fails when balance < amount). Both
\* comparisons are those of f64, false for NaN.
FirstFailingCheck(b, c) ==
    IF c.account \notin Accounts(b)
    THEN [kind |-> "AccountNotFound", account |-> c.account]
    ELSE IF c.op = "transfer" /\ c.receiver_account \notin Accounts(b)
    THEN [kind |-> "AccountNotFound", account |-> c.receiver_account]
    ELSE IF c.op = "transfer" /\ c.account = c.receiver_account
    THEN [kind |-> "SomeAccountTransfer", account |-> c.account]
    ELSE IF FLe(c.amount, MONEY_ZERO)
    THEN [kind |-> "AmountNegative", account |-> c.account]
    ELSE IF c.op # "deposit" /\ FLt(b.accounts[c.account], c.amount)
    THEN [kind |-> "InsufficientFunds", account |-> c.account]
    ELSE [kind |-> "", account |-> c.account]

ReachesFundsCheck(b, c) ==
    /\ c.op \in {"withdraw", "transfer"}
    /\ c.account \in Accounts(b)
    /\ c.op = "transfer" => /\ c.receiver_account \in Accounts(b)
                            /\ c.receiver_account # c.account
    /\ ~FLe(c.amount, MONEY_ZERO)

C33_FailedTransferChangesNothing ==
    [][ LET c == lastCall' IN
        (c.op = "transfer" /\ ~lastResult'.ok)
        => /\ lastResult'.error.kind \in {"AccountNotFound", "SomeAccountTransfer",
                                          "AmountNegative", "InsufficientFunds"}
           /\ bank'.accounts = bank.accounts
           /\ bank'.history = bank.history
           /\ bank'.accounts_history = bank.accounts_history
      ]_vars

\* C33 witness: a transfer between two existing accounts was refused for
\* insufficient funds while the sender held a positive balance.
C33_Witness ==
    /\ lastCall.op = "transfer" /\ ~lastResult.ok
    /\ lastResult.error.kind = "InsufficientFunds"
    /\ lastCall.receiver_account \in Accounts(bank)
    /\ bank.accounts[lastCall.account] = Fin(1)
    /\ lastCall.amount = Fin(MaxFinite)

\* The accounts a logged operation refers to.
AccountsOf(o) ==
    IF o.operation_type.tag = "Transfer"
    THEN {o.source_account, o.operation_type.target_account}
    ELSE {o.source_account}

\* Every operation of operations_log, re-dispatched in order on target_bank,
\* succeeds: when it is dispatched the accounts it refers to were created
\* (and the account of a CreateAccount was not), and it leaves no balance
\* below 0.
RECURSIVE ReplaySucceeds(_, _)
ReplaySucceeds(target_bank, operations_log) ==
    IF operations_log = << >> THEN TRUE
    ELSE LET operation == Head(operations_log)
             o == replay_step(target_bank, operation)
         IN /\ IF operation.operation_type.tag = "CreateAccount"
               THEN operation.source_account \notin Accounts(target_bank)
               ELSE AccountsOf(operation) \subseteq Accounts(target_bank)
            /\ o.res.ok
            /\ \A a \in Accounts(o.bank) : ~FLt(o.bank.accounts[a], MONEY_ZERO)
            /\ ReplaySucceeds(o.bank, Tail(operations_log))

ReplayNeverFails(b) ==
    ReplaySucceeds(BankDefault(b.ulid_generator), get_history(b).value)

Integrity(b) ==
    /\ \A a \in Accounts(b) :
         /\ a \in DOMAIN b.accounts_history
         /\ b.accounts_history[a] # << >>
         /\ b.accounts_history[a][1] \in DOMAIN b.history
         /\ LET o == b.history[b.accounts_history[a][1]] IN
            /\ o.operation_type.tag = "CreateAccount"
            /\ o.source_account = a
         /\ get_account_history(b, a).ok
    /\ \A a \in DOMAIN b.accounts_history :
         \A i \in 1..Len(b.accounts_history[a]) :
             b.accounts_history[a][i] \in DOMAIN b.history
    /\ \A id \in DOMAIN b.history :
         AccountsOf(b.history[id]) \subseteq Accounts(b)

\* C36: the ledger keeps its referential integrity in every reachable state
\* (the fresh Bank has it and every call that changes the Bank keeps it), so
\* the lookups of get_account_history and push_transaction never fail: no
\* call ends in a panic.
C36_ReferentialIntegrity ==
    [][ /\ bank = NewBank => Integrity(bank)
        /\ ( \/ bank'.history # bank.history
             \/ bank'.accounts_history # bank.accounts_history
             \/ DOMAIN bank'.accounts # DOMAIN bank.accounts )
           => Integrity(bank')
        /\ lastResult'.ok \/ lastResult'.error.kind # "panic"
      ]_vars

\* C36 witness: account B holds its creation and a transfer received from A,
\* both found in the log.
C36_Witness ==
    /\ Integrity(bank)
    /\ "B" \in Accounts(bank)
    /\ Len(bank.accounts_history["B"]) = 2
    /\ LET o == bank.history[bank.accounts_history["B"][2]] IN
       /\ o.operation_type.tag = "Transfer"
       /\ o.source_account = "A"
       /\ o.operation_type.target_account = "B"

\* The requests of connection c that are with the actor: on its queue, being
\* applied, or answered on the reply channel and not received by the handler.
WithActor(c) ==
    Len(QueuedOf(queue, c))
      + (IF actor_pc # "recv" /\ actor_cur.callback_chanel = c THEN 1 ELSE 0)
      + Len(reply[c])

\* The connections whose handler thread runs.
Live == { c \in Conns : handler[c].pc \in {"reading", "waiting"} }

\* C37: each connection has at most one request outstanding at the
\* Processing Actor: while a request of a connection is with the actor its
\* handler is blocked waiting for the reply, so it enqueues the next request
\* only after it received that reply, and the actor's queue never holds more
\* entries than there are live connections.
C37_OneOutstandingPerConnection ==
    /\ \A c \in Conns :
         /\ WithActor(c) <= 1
         /\ WithActor(c) = 1 => handler[c].pc = "waiting"
    /\ Len(queue) <= Cardinality(Live)

\* C37 witness: both connections have a request on the actor's queue, and
\* both handlers wait.
C37_Witness ==
    /\ Len(queue) = 2
    /\ \A c \in Conns : WithActor(c) = 1 /\ handler[c].pc = "waiting"

\* The request the actor answers in this step: the one it takes off the queue,
\* or the transfer it is inside.
Answered == IF actor_pc = "recv" THEN Head(queue) ELSE actor_cur

\* C38: replies are never cross-delivered. A reply the actor sends goes on the
\* reply channel of the connection that submitted the request it answers,
\* whose handler waits for exactly that request, and on no other channel; a
\* handler that submits a request waits on a fresh, empty channel for the
\* request it just read; and the response a waiting handler writes to its
\* client is built from the reply on its own channel for that request.
C38_NoCrossDelivery ==
    [][ \A c \in Conns :
          /\ Len(reply'[c]) > Len(reply[c])
                => /\ Answered.callback_chanel = c
                   /\ handler[c] = Waiting(Answered.process)
                   /\ reply[c] = << >>
                   /\ Len(reply'[c]) = 1
                   /\ IF actor_pc = "recv"
                      THEN reply'[c] = actor_apply(bank, Answered.process).send
                      ELSE /\ reply'[c][1].variant = "Transaction"
                           /\ reply'[c][1].result = Ok(bank'.ulid_generator)
          /\ (handler[c].pc # "waiting" /\ handler'[c].pc = "waiting")
                => /\ handler'[c].payload = request_from_slice(Received(c)).value
                   /\ queue' = Append(queue, [process |-> handler'[c].payload,
                                              callback_chanel |-> c])
                   /\ reply'[c] = << >>
          /\ (handler[c].pc = "waiting" /\ Len(net_out'[c]) > Len(net_out[c]))
                => /\ reply[c] # << >>
                   /\ process_response(handler[c].payload, reply[c][1]).ok
                   /\ net_out'[c] = Append(net_out[c],
                         response_to_vec(process_response(handler[c].payload,
                                                          reply[c][1]).value))
      ]_vars

\* C38 witness: GetBalance on one connection and a Deposit on the other were
\* both answered, each client reading the response to its own request.
C38_Witness ==
    /\ net_out["c1"] # << >> /\ net_out["c2"] # << >>
    /\ net_out["c1"][1].payload.type = "Balance"
    /\ net_out["c2"][1].payload.type = "DepositSuccess"

(***************************************************************************)
(* Framing: one message read from a stream in chunks                       *)
(* (Response::read, shared/src/models.rs; the same loop opens              *)
(* handle_client_requests, server/src/main.rs)                             *)
(***************************************************************************)
\* The size of the read buffer, scaled down.
MAX_CHUNK_BYTE_SIZE == 3

\* The longest message sent: two full chunks and one byte more.
MaxMessageLen == 2 * MAX_CHUNK_BYTE_SIZE + 1

\* serde_json::to_vec of a message of n bytes: one JSON document, which ends
\* with the brace that closes it and holds no other closing brace.
Message(n) == [i \in 1..n |-> IF i = n THEN "}" ELSE "x"]

\* serde_json::from_slice: the bytes are one complete document and nothing
\* follows it.
from_slice(received) ==
    IF /\ received # << >>
       /\ received[Len(received)] = "}"
       /\ \A i \in 1..(Len(received) - 1) : received[i] # "}"
    THEN Ok(received)
    ELSE Err([kind |-> "serde_json"])

\* stream.read(&mut chunk): as many of the bytes that arrived as the buffer
\* holds; no byte when the peer closed and everything was read.
stream_read(stream) ==
    SubSeq(stream, 1, IF Len(stream) < MAX_CHUNK_BYTE_SIZE THEN Len(stream)
                      ELSE MAX_CHUNK_BYTE_SIZE)

\* Mutant of last_chunk: a read that fills the buffer ends the frame too.
last_chunk_or_full(bytes_read) == bytes_read <= MAX_CHUNK_BYTE_SIZE

\* `if bytes_read < MAX_CHUNK_BYTE_SIZE { break; }`
last_chunk(bytes_read) == bytes_read < MAX_CHUNK_BYTE_SIZE

\* The receiver inside Response::read: the bytes collected so far and the
\* chunk each read returned.
Receiver(pc, received, chunks) == [pc |-> pc, received |-> received, chunks |-> chunks]

\* In this specification lastCall is the message being sent, sent the number
\* of its bytes that reached the receiver's socket, handler the sender's end
\* of the connection, net_out the bytes that arrived and were not read yet,
\* client the receiver and lastResult what Response::read returned.
FramingInit ==
    /\ \E n \in 1..MaxMessageLen : lastCall = [op |-> "send", bytes |-> Message(n)]
    /\ sent = 0
    /\ handler = "open"
    /\ net_out = << >>
    /\ client = Receiver("reading", << >>, << >>)
    /\ lastResult = Err([kind |-> "unfinished"])
    /\ bank = NewBank
    /\ net_in = << >>
    /\ queue = << >>
    /\ reply = << >>
    /\ actor_pc = "recv"
    /\ actor_cur = NoCall

\* write_all: the network delivers the next bytes of the message, in segments
\* of any size.
SegmentArrives ==
    \E k \in 1..MaxMessageLen :
        /\ sent + k <= Len(lastCall.bytes)
        /\ net_out' = net_out \o SubSeq(lastCall.bytes, sent + 1, sent + k)
        /\ sent' = sent + k
        /\ UNCHANGED << bankVars, handler, client, net_in, queue, reply, actor_pc,
                        actor_cur >>

\* The sender closes the connection after it wrote the message.
SenderCloses ==
    /\ handler = "open"
    /\ sent = Len(lastCall.bytes)
    /\ handler' = "closed"
    /\ UNCHANGED << bankVars, sent, client, net_in, net_out, queue, reply, actor_pc,
                    actor_cur >>

\* One pass of the loop of Response::read: read blocks until bytes arrived or
\* the peer closed; the chunk is added to received, and after the last chunk
\* received is deserialized and the call returns.
ReceiverReads ==
    /\ client.pc = "reading"
    /\ net_out # << >> \/ handler = "closed"
    /\ LET chunk == stream_read(net_out)
           received == client.received \o chunk
       IN /\ net_out' = SubSeq(net_out, Len(chunk) + 1, Len(net_out))
          /\ IF last_chunk(Len(chunk))
             THEN /\ client' = Receiver("returned", received, Append(client.chunks, chunk))
                  /\ lastResult' = from_slice(received)
             ELSE /\ client' = Receiver("reading", received, Append(client.chunks, chunk))
                  /\ UNCHANGED lastResult
    /\ UNCHANGED << bank, lastCall, handler, sent, net_in, queue, reply, actor_pc,
                    actor_cur >>

FramingNext ==
    \/ SegmentArrives
    \/ SenderCloses
    \/ ReceiverReads

FramingSpec == FramingInit /\ [][FramingNext]_vars

(***************************************************************************)
(* Properties of the framing                                               *)
(***************************************************************************)
\* The chunks one after the other.
RECURSIVE Concatenation(_)
Concatenation(chunks) ==
    IF chunks = << >> THEN << >>
    ELSE Head(chunks) \o Concatenation(Tail(chunks))

\* C35: the receiver ends a frame at the first read that returns fewer than
\* MAX_CHUNK_BYTE_SIZE bytes and deserializes the concatenation of all reads
\* up to it; a message shorter than MAX_CHUNK_BYTE_SIZE that arrives in one
\* read is received exactly as sent; after reads that delivered exactly a
\* message whose length is a multiple of MAX_CHUNK_BYTE_SIZE the frame is not
\* complete, and it ends only with a further read.
C35_FrameEndsAtShortRead ==
    LET chunks == client.chunks
        message == lastCall.bytes
    IN
    /\ \A i \in 1..Len(chunks) :
         i < Len(chunks) => Len(chunks[i]) = MAX_CHUNK_BYTE_SIZE
    /\ client.pc = "returned" <=>
         (chunks # << >> /\ Len(chunks[Len(chunks)]) < MAX_CHUNK_BYTE_SIZE)
    /\ client.received = Concatenation(chunks)
    /\ client.pc = "returned" => lastResult = from_slice(Concatenation(chunks))
    /\ ( /\ client.pc = "returned"
         /\ Len(message) < MAX_CHUNK_BYTE_SIZE
         /\ chunks[1] = message )
       => lastResult = Ok(message)
    /\ ( /\ Len(message) % MAX_CHUNK_BYTE_SIZE = 0
         /\ client.received = message )
       => /\ Len(chunks) >= Len(message) \div MAX_CHUNK_BYTE_SIZE
          /\ Len(chunks) = Len(message) \div MAX_CHUNK_BYTE_SIZE => client.pc = "reading"
          /\ client.pc = "returned"
               => /\ Len(chunks) = Len(message) \div MAX_CHUNK_BYTE_SIZE + 1
                  /\ chunks[Len(chunks)] = << >>

\* C35 witness: a message of two full chunks arrived whole, two reads returned
\* it, and the frame ended with a third read, which returned no byte.
C35_Witness ==
    /\ Len(lastCall.bytes) = 2 * MAX_CHUNK_BYTE_SIZE
    /\ client.pc = "returned"
    /\ Len(client.chunks) = 3
    /\ lastResult = Ok(lastCall.bytes)


====
